---- MODULE Spec2Model ----
(***************************************************************************)
(* JobPortal backend: the application lifecycle (apply, withdraw, status   *)
(* update), job update and delete, and the resume heuristic scorer.        *)
(*                                                                         *)
(* Every handler is a sequence of store statements separated by awaits;    *)
(* each statement is atomic, handlers of concurrent requests interleave    *)
(* at the awaits.  A call is a slot whose pc names the next statement.     *)
(***************************************************************************)
EXTENDS Integers, Sequences, FiniteSets, TLC

(***************************************************************************)
(* Bounds                                                                  *)
(***************************************************************************)
\* application rows ever inserted in one behaviour (caps AUTO_INCREMENT)
MaxApps == 2

(***************************************************************************)
(* Users (rows of table users; registration is outside this model)         *)
(***************************************************************************)
Users == {"ann", "bob", "cat", "dan"}

\* users.role
RoleOf(u) ==
  CASE u = "ann" -> "job_seeker"
    [] u = "bob" -> "job_poster"
    [] u = "cat" -> "job_poster"
    [] u = "dan" -> "admin"

\* users.user_id of each account
UserIdOf(u) ==
  CASE u = "ann" -> 1
    [] u = "bob" -> 2
    [] u = "cat" -> 3
    [] u = "dan" -> 4

Titles == {"t1", "t2"}

AppStatuses == {"pending", "reviewed", "shortlisted", "rejected", "accepted"}

\* a status value outside the enum, as a request may carry it
BadStatus == "hired"

StatusArgs == AppStatuses \cup {BadStatus}

\* ids a request can name for a job or an application
IdArgs == {1, 2}

VARIABLES
  jobs,           \* table jobs: set of rows
  applications,   \* table applications: set of rows
  nextAppId,      \* AUTO_INCREMENT of applications.application_id
  slots,          \* the calls in flight
  conc,           \* how many calls overlap (1: one call after the other)
  last,           \* the response that is going out: the call,
                  \* its status code, whether a store statement threw
  resume,         \* an analyze-resume request and, once answered, its response
  interview_practice,  \* table interview_practice: rows in insertion order
  career,         \* the response of a mock-interview or stats call going out
  users,          \* table users: set of rows
  profiles,       \* table profiles: set of rows
  password_resets,  \* table password_resets: set of rows
  nextUserId,     \* AUTO_INCREMENT of users.user_id
  alumni_chapters,  \* table alumni_chapters: set of rows
  chapter_members,  \* table chapter_members: set of rows
  nextChapterId,  \* AUTO_INCREMENT of alumni_chapters.chapter_id
  nextMemberId,   \* AUTO_INCREMENT of chapter_members.id
  chapter_posts,  \* table chapter_posts: rows in insertion order
  calls,          \* the calls of the auth and chapter routers in flight
  answer          \* the response of such a call going out

authvars == <<users, profiles, password_resets, nextUserId>>

chaptervars ==
  <<alumni_chapters, chapter_members, nextChapterId, nextMemberId, chapter_posts>>

vars ==
  <<jobs, applications, nextAppId, slots, conc, last, resume,
    interview_practice, career, authvars, chaptervars, calls, answer>>

\* the state of the routers other than applications and jobs
sidevars == <<interview_practice, career, authvars, chaptervars, calls, answer>>

dbvars == <<jobs, applications, nextAppId>>

Slots == {"r1", "r2"}

NoRow == [id |-> 0, job_id |-> 0, user_id |-> "none"]

Idle ==
  [pc |-> "idle", kind |-> "none", user |-> "none", id |-> 0, req |-> "none",
   row |-> NoRow, pre |-> <<>>]

\* no response sent yet
NoCall ==
  [kind |-> "none", user |-> "none", id |-> 0, req |-> "none", pre |-> <<>>,
   code |-> 0, faulted |-> FALSE, mail |-> "none"]

Snapshot(js, as) == [jobs |-> js, applications |-> as]

\* a call of the auth or chapter router: its place in the handler, the request,
\* the handler's locals, the tables as the call found them
NoSideCall ==
  [pc |-> "idle", kind |-> "none", user |-> "none", req |-> <<>>, loc |-> <<>>,
   pre |-> <<>>]

\* no response of the auth or chapter router going out
NoAnswer ==
  [kind |-> "none", user |-> "none", req |-> <<>>, pre |-> <<>>, code |-> 0,
   failed |-> FALSE, mail |-> "none", data |-> <<>>]

\* no response of the career router going out
NoCareer ==
  [kind |-> "none", user |-> "none", req |-> <<>>, pre |-> <<>>, code |-> 0,
   data |-> <<>>, failed |-> FALSE]

\* the calls in flight, whatever the router
InFlight ==
  Cardinality({s \in Slots : slots[s].pc # "idle"})
  + Cardinality({s \in Slots : calls[s].pc # "idle"})

\* every response has gone out
Quiet == last = NoCall /\ answer = NoAnswer /\ career = NoCareer

(***************************************************************************)
(* Store statements                                                        *)
(***************************************************************************)

\* variant: the duplicate check finds nothing
SelectExistingNone(as, j, u) == {}

\* SELECT * FROM applications WHERE job_id = ? AND user_id = ?
SelectExisting(as, j, u) == {a \in as : a.job_id = j /\ a.user_id = u}

\* SELECT * FROM applications WHERE application_id = ?
SelectApplication(as, id) == {a \in as : a.application_id = id}

\* SELECT * FROM jobs WHERE job_id = ?
SelectJob(js, id) == {j \in js : j.job_id = id}

\* variant: the table without UNIQUE KEY unique_application
InsertAllowedNoUnique(js, as, j, u) == {r \in js : r.job_id = j} # {}

\* INSERT INTO applications: refused by the store when the job row is missing
\* (FOREIGN KEY job_id) or the pair is already there (UNIQUE unique_application)
InsertAllowed(js, as, j, u) ==
  /\ {r \in js : r.job_id = j} # {}
  /\ {a \in as : a.job_id = j /\ a.user_id = u} = {}

InsertApplication(as, id, j, u) ==
  as \cup {[application_id |-> id, job_id |-> j, user_id |-> u, status |-> "pending"]}

\* variant: the counter is computed from the rows
IncrementCountRecount(js, j) ==
  {IF r.job_id = j
     THEN [r EXCEPT !.applications_count = Cardinality({a \in applications : a.job_id = j})]
     ELSE r : r \in js}

\* UPDATE jobs SET applications_count = applications_count + 1 WHERE job_id = ?
IncrementCount(js, j) ==
  {IF r.job_id = j THEN [r EXCEPT !.applications_count = @ + 1] ELSE r : r \in js}

\* GREATEST(applications_count - 1, 0)
Greatest(a, b) == IF a >= b THEN a ELSE b

\* variant: the decrement without GREATEST
DecrementCountUnfloored(js, j) ==
  {IF r.job_id = j THEN [r EXCEPT !.applications_count = @ - 1] ELSE r : r \in js}

\* UPDATE jobs SET applications_count = GREATEST(applications_count - 1, 0) WHERE job_id = ?
DecrementCount(js, j) ==
  {IF r.job_id = j THEN [r EXCEPT !.applications_count = Greatest(@ - 1, 0)] ELSE r : r \in js}

\* DELETE FROM applications WHERE application_id = ?
DeleteApplication(as, id) == {a \in as : a.application_id # id}

\* UPDATE applications SET status = ? WHERE application_id = ?
SetStatus(as, id, st) ==
  {IF a.application_id = id THEN [a EXCEPT !.status = st] ELSE a : a \in as}

\* UPDATE jobs SET title = ?, ... WHERE job_id = ?
SetJob(js, id, t) ==
  {IF r.job_id = id THEN [r EXCEPT !.title = t] ELSE r : r \in js}

\* DELETE FROM jobs WHERE job_id = ?
DeleteJob(js, id) == {r \in js : r.job_id # id}

\* FOREIGN KEY (job_id) REFERENCES jobs(job_id) ON DELETE CASCADE
CascadeJob(as, id) == {a \in as : a.job_id # id}

(***************************************************************************)
(* Middleware and ownership checks                                         *)
(***************************************************************************)

\* authorizeRoles(...allowed): the caller's role is one of the allowed roles
authorizeRoles(u, allowed) == RoleOf(u) \in allowed

AnyRole == {"job_seeker", "student", "alumni", "job_poster", "admin"}

PosterRoles == {"job_poster", "alumni", "admin"}

\* variant: the ownership check left out
WithdrawForbiddenNever(application, u) == FALSE

\* application.user_id !== req.user.userId && req.user.role !== 'admin'
WithdrawForbidden(application, u) ==
  application.user_id # u /\ RoleOf(u) # "admin"

\* app.job_poster_id !== req.user.userId && req.user.role !== 'admin'
StatusForbidden(poster, u) ==
  poster # u /\ RoleOf(u) # "admin"

\* jobs[0].user_id !== req.user.userId && req.user.role !== 'admin'
JobForbidden(job, u) ==
  job.user_id # u /\ RoleOf(u) # "admin"

\* the roles each route lets in
Gate(kind) == IF kind \in {"apply", "withdraw"} THEN AnyRole ELSE PosterRoles

\* variant: a list without 'pending' (as statusMessages is)
ValidStatusNoPending(st) == st \in {"reviewed", "shortlisted", "rejected", "accepted"}

\* ['pending', 'reviewed', 'shortlisted', 'rejected', 'accepted'].includes(status)
ValidStatus(st) == st \in AppStatuses

(***************************************************************************)
(* Call bookkeeping                                                        *)
(***************************************************************************)

\* a request is taken up once the response before it has gone out
CanStart(s) ==
  /\ slots[s].pc = "idle"
  /\ InFlight < conc
  /\ Quiet

\* the request enters its handler; pre is the store as the call found it,
\* kept while calls run one after the other
Begin(s, kind, u, id, req, pc) ==
  /\ slots' = [slots EXCEPT ![s] =
       [pc |-> pc, kind |-> kind, user |-> u, id |-> id, req |-> req, row |-> NoRow,
        pre |-> IF conc = 1 THEN Snapshot(jobs, applications) ELSE <<>>]]
  /\ UNCHANGED <<conc, last, resume, sidevars>>

Goto(s, pc) ==
  /\ slots' = [slots EXCEPT ![s].pc = pc]
  /\ UNCHANGED <<conc, last, resume, sidevars>>

\* res.status(code).json(...): the call ends; mail: what became of its email
RespondMail(s, code, flt, mail) ==
  /\ slots' = [slots EXCEPT ![s] = Idle]
  /\ last' = [kind |-> slots[s].kind, user |-> slots[s].user, id |-> slots[s].id,
              req |-> slots[s].req, pre |-> slots[s].pre,
              code |-> code, faulted |-> flt, mail |-> mail]
  /\ UNCHANGED <<conc, resume, sidevars>>

\* a response of a call that sent no email
Respond(s, code, flt) == RespondMail(s, code, flt, "none")

(***************************************************************************)
(* The notifier (utils/email.js)                                           *)
(***************************************************************************)

\* what happens to an email: Resend takes it, RESEND_API_KEY is not set,
\* Resend answers an error, resend.emails.send throws
NotifierOutcomes == {"sent", "unconfigured", "api_error", "throws"}

\* variant: no try/catch around resend.emails.send
sendEmailNoCatch(o) == [threw |-> o = "throws", value |-> o = "sent"]

\* sendEmail: what the caller gets, threw: an exception reaches the caller
sendEmail(o) == [threw |-> FALSE, value |-> o = "sent"]

\* await sendEmail(...) inside the handler's try, then the success response;
\* an exception would be answered by the handler's catch
Notify(s, o, code) ==
  RespondMail(s, IF sendEmail(o).threw THEN 500 ELSE code, FALSE, o)

(***************************************************************************)
(* POST /apply                                                             *)
(***************************************************************************)

ApplyInFlight == Cardinality({s \in Slots : slots[s].kind = "apply"})

ApplyStart(s, u, j) ==
  /\ CanStart(s)
  /\ nextAppId + ApplyInFlight <= MaxApps
  /\ Begin(s, "apply", u, j, "none", "apply_check")
  /\ UNCHANGED dbvars

\* the duplicate check; with an uploaded file the profile query is skipped
ApplyCheck(s) ==
  /\ slots[s].pc = "apply_check"
  /\ UNCHANGED dbvars
  /\ IF SelectExisting(applications, slots[s].id, slots[s].user) # {}
       THEN Respond(s, 400, FALSE)
       ELSE \E file \in BOOLEAN :
              Goto(s, IF file THEN "apply_insert" ELSE "apply_profile")

ApplyProfile(s) ==
  /\ slots[s].pc = "apply_profile"
  /\ UNCHANGED dbvars
  /\ Goto(s, "apply_insert")

ApplyInsert(s) ==
  /\ slots[s].pc = "apply_insert"
  /\ UNCHANGED jobs
  /\ IF InsertAllowed(jobs, applications, slots[s].id, slots[s].user)
       THEN /\ applications' = InsertApplication(applications, nextAppId, slots[s].id, slots[s].user)
            /\ nextAppId' = nextAppId + 1
            /\ Goto(s, "apply_count")
       ELSE /\ UNCHANGED <<applications, nextAppId>>
            /\ Respond(s, 500, FALSE)

ApplyCount(s) ==
  /\ slots[s].pc = "apply_count"
  /\ jobs' = IncrementCount(jobs, slots[s].id)
  /\ UNCHANGED <<applications, nextAppId>>
  /\ Goto(s, "apply_notify")

\* the poster's row is read and the notification sent; then 201
ApplyNotify(s) ==
  /\ slots[s].pc = "apply_notify"
  /\ UNCHANGED dbvars
  /\ IF SelectJob(jobs, slots[s].id) = {}
       THEN Respond(s, 201, FALSE)
       ELSE \E o \in NotifierOutcomes : Notify(s, o, 201)

(***************************************************************************)
(* DELETE /:id (withdraw)                                                  *)
(***************************************************************************)

WithdrawStart(s, u, a) ==
  /\ CanStart(s)
  /\ Begin(s, "withdraw", u, a, "none", "withdraw_select")
  /\ UNCHANGED dbvars

WithdrawSelect(s) ==
  /\ slots[s].pc = "withdraw_select"
  /\ UNCHANGED dbvars
  /\ LET found == SelectApplication(applications, slots[s].id) IN
     IF ~authorizeRoles(slots[s].user, AnyRole)
       THEN Respond(s, 403, FALSE)
       ELSE IF found = {}
         THEN Respond(s, 404, FALSE)
         ELSE LET application == CHOOSE a \in found : TRUE IN
              IF WithdrawForbidden(application, slots[s].user)
                THEN Respond(s, 403, FALSE)
                ELSE /\ slots' = [slots EXCEPT ![s].pc = "withdraw_delete",
                                               ![s].row = [id |-> application.application_id,
                                                           job_id |-> application.job_id,
                                                           user_id |-> application.user_id]]
                     /\ UNCHANGED <<conc, last, resume, sidevars>>

WithdrawDelete(s) ==
  /\ slots[s].pc = "withdraw_delete"
  /\ applications' = DeleteApplication(applications, slots[s].id)
  /\ UNCHANGED <<jobs, nextAppId>>
  /\ Goto(s, "withdraw_count")

WithdrawCount(s) ==
  /\ slots[s].pc = "withdraw_count"
  /\ jobs' = DecrementCount(jobs, slots[s].row.job_id)
  /\ UNCHANGED <<applications, nextAppId>>
  /\ Respond(s, 200, FALSE)

(***************************************************************************)
(* PUT /:id/status                                                         *)
(***************************************************************************)

StatusStart(s, u, a, st) ==
  /\ CanStart(s)
  /\ Begin(s, "status", u, a, st, "status_select")
  /\ UNCHANGED dbvars

\* the application row joined with its job (j.user_id as job_poster_id)
SelectApplicationWithJob(as, js, id) ==
  {[application_id |-> p[1].application_id, job_id |-> p[1].job_id,
    user_id |-> p[1].user_id, job_poster_id |-> p[2].user_id] :
     p \in {q \in as \X js : q[1].application_id = id /\ q[1].job_id = q[2].job_id}}

StatusSelect(s) ==
  /\ slots[s].pc = "status_select"
  /\ UNCHANGED dbvars
  /\ LET found == SelectApplicationWithJob(applications, jobs, slots[s].id) IN
     IF ~authorizeRoles(slots[s].user, PosterRoles)
       THEN Respond(s, 403, FALSE)
       ELSE IF ~ValidStatus(slots[s].req)
         THEN Respond(s, 400, FALSE)
         ELSE IF found = {}
           THEN Respond(s, 404, FALSE)
           ELSE LET app == CHOOSE a \in found : TRUE IN
                IF StatusForbidden(app.job_poster_id, slots[s].user)
                  THEN Respond(s, 403, FALSE)
                  ELSE Goto(s, "status_update")

\* the UPDATE, then the notification to the applicant, then 200
StatusUpdate(s) ==
  /\ slots[s].pc = "status_update"
  /\ applications' = SetStatus(applications, slots[s].id, slots[s].req)
  /\ UNCHANGED <<jobs, nextAppId>>
  /\ \E o \in NotifierOutcomes : Notify(s, o, 200)

(***************************************************************************)
(* PUT /jobs/:id and DELETE /jobs/:id                                      *)
(***************************************************************************)

JobUpdateStart(s, u, j, t) ==
  /\ CanStart(s)
  /\ Begin(s, "job_update", u, j, t, "job_update_select")
  /\ UNCHANGED dbvars

JobDeleteStart(s, u, j) ==
  /\ CanStart(s)
  /\ Begin(s, "job_delete", u, j, "none", "job_delete_select")
  /\ UNCHANGED dbvars

\* the ownership check both handlers open with
JobSelect(s, next) ==
  /\ UNCHANGED dbvars
  /\ LET found == SelectJob(jobs, slots[s].id) IN
     IF ~authorizeRoles(slots[s].user, PosterRoles)
       THEN Respond(s, 403, FALSE)
       ELSE IF found = {}
         THEN Respond(s, 404, FALSE)
         ELSE IF JobForbidden(CHOOSE j \in found : TRUE, slots[s].user)
           THEN Respond(s, 403, FALSE)
           ELSE Goto(s, next)

JobUpdateSelect(s) ==
  /\ slots[s].pc = "job_update_select"
  /\ JobSelect(s, "job_update_write")

JobUpdateWrite(s) ==
  /\ slots[s].pc = "job_update_write"
  /\ jobs' = SetJob(jobs, slots[s].id, slots[s].req)
  /\ UNCHANGED <<applications, nextAppId>>
  /\ Respond(s, 200, FALSE)

JobDeleteSelect(s) ==
  /\ slots[s].pc = "job_delete_select"
  /\ JobSelect(s, "job_delete_write")

JobDeleteWrite(s) ==
  /\ slots[s].pc = "job_delete_write"
  /\ jobs' = DeleteJob(jobs, slots[s].id)
  /\ applications' = CascadeJob(applications, slots[s].id)
  /\ UNCHANGED nextAppId
  /\ Respond(s, 200, FALSE)

\* the response goes out to the client
Deliver ==
  /\ last # NoCall
  /\ last' = NoCall
  /\ UNCHANGED <<dbvars, slots, conc, resume, sidevars>>

(***************************************************************************)
(* POST /analyze-resume: the resume heuristic scorer                       *)
(***************************************************************************)

\* fragments a resume text is put together from
MaxFrags == 2

Fragments ==
  {"Designed, created, launched, optimized and SCALED systems. ",
   "Managed a Project, improved growth by 35%. ",
   "Saved $500. ",
   "Served 1,000 users. ",
   "Talked to teams, users and more. ",
   "Took the Initiative. ",
   "Revenue 5 INCREASED. ",
   "Wrote code. ",
   "  "}

\* the text is filled up to a length with one character
Fillings ==
  {[len |-> 0, ch |-> "x"], [len |-> 19, ch |-> "x"], [len |-> 20, ch |-> "x"],
   [len |-> 21, ch |-> "x"], [len |-> 149, ch |-> "x"], [len |-> 150, ch |-> "x"],
   [len |-> 151, ch |-> "x"], [len |-> 21, ch |-> " "], [len |-> 150, ch |-> " "]}

RECURSIVE Concat(_)
Concat(fs) == IF fs = <<>> THEN "" ELSE Head(fs) \o Concat(Tail(fs))

RECURSIVE Repeat(_, _)
Repeat(ch, n) ==
  IF n <= 0 THEN ""
  ELSE IF n = 1 THEN ch
  ELSE Repeat(ch, n \div 2) \o Repeat(ch, n - (n \div 2))

Fill(s, n, ch) == s \o Repeat(ch, n - Len(s))

FragSeqs == UNION {[1..n -> Fragments] : n \in 0..MaxFrags}

Texts == {Fill(Concat(fs), f.len, f.ch) : fs \in FragSeqs, f \in Fillings}

At(s, i) == SubSeq(s, i, i)

\* String.prototype.toLowerCase, one character
LowerChar(c) ==
  CASE c = "A" -> "a" [] c = "B" -> "b" [] c = "C" -> "c" [] c = "D" -> "d"
    [] c = "E" -> "e" [] c = "F" -> "f" [] c = "G" -> "g" [] c = "H" -> "h"
    [] c = "I" -> "i" [] c = "J" -> "j" [] c = "K" -> "k" [] c = "L" -> "l"
    [] c = "M" -> "m" [] c = "N" -> "n" [] c = "O" -> "o" [] c = "P" -> "p"
    [] c = "Q" -> "q" [] c = "R" -> "r" [] c = "S" -> "s" [] c = "T" -> "t"
    [] c = "U" -> "u" [] c = "V" -> "v" [] c = "W" -> "w" [] c = "X" -> "x"
    [] c = "Y" -> "y" [] c = "Z" -> "z" [] OTHER -> c

\* resumeText.toLowerCase()
RECURSIVE toLowerCase(_)
toLowerCase(s) ==
  IF Len(s) <= 1 THEN LowerChar(s)
  ELSE toLowerCase(SubSeq(s, 1, Len(s) \div 2))
       \o toLowerCase(SubSeq(s, (Len(s) \div 2) + 1, Len(s)))

\* \s
IsSpace(c) == c \in {" ", "\t", "\n", "\r"}

\* \d
IsDigit(c) == c \in {"0", "1", "2", "3", "4", "5", "6", "7", "8", "9"}

\* resumeText.trim(): from the first to the last character that is not whitespace
trim(s) ==
  LET solid == {i \in 1..Len(s) : ~IsSpace(At(s, i))} IN
  IF solid = {} THEN ""
  ELSE SubSeq(s, CHOOSE i \in solid : \A k \in solid : i <= k,
                 CHOOSE i \in solid : \A k \in solid : i >= k)

\* lowerText.includes(kw)
includes(s, kw) ==
  \E i \in 1..(Len(s) - Len(kw) + 1) : SubSeq(s, i, i + Len(kw) - 1) = kw

keywords ==
  <<"leadership", "managed", "developed", "implemented", "achieved",
    "increased", "reduced", "improved", "collaborated", "designed",
    "led", "created", "launched", "optimized", "scaled">>

MetricWords == {"users", "customers", "revenue", "growth", "reduction", "increase"}

\* the word w stands at position i, whatever the case (flag i)
WordAt(s, i, w) ==
  /\ i + Len(w) - 1 <= Len(s)
  /\ toLowerCase(SubSeq(s, i, i + Len(w) - 1)) = w

\* \d+% matches from position i
PercentAt(s, i) ==
  /\ IsDigit(At(s, i))
  /\ \E j \in i..(Len(s) - 1) :
       /\ \A k \in i..j : IsDigit(At(s, k))
       /\ At(s, j + 1) = "%"

\* \$\d+ matches from position i
DollarAt(s, i) ==
  /\ At(s, i) = "$"
  /\ i + 1 <= Len(s)
  /\ IsDigit(At(s, i + 1))

\* [\d,]+\s*(users|customers|revenue|growth|reduction|increase) matches from position i
CountAt(s, i) ==
  /\ IsDigit(At(s, i)) \/ At(s, i) = ","
  /\ \E j \in i..Len(s) :
       /\ \A k \in i..j : IsDigit(At(s, k)) \/ At(s, k) = ","
       /\ \E m \in j..Len(s) :
            /\ \A k \in (j + 1)..m : IsSpace(At(s, k))
            /\ \E w \in MetricWords : WordAt(s, m + 1, w)

\* metricPatterns.test(resumeText)
metricPatterns(s) ==
  \E i \in 1..Len(s) : PercentAt(s, i) \/ DollarAt(s, i) \/ CountAt(s, i)

\* keywords.filter(kw => lowerText.includes(kw))
foundKeywords(lowerText) == SelectSeq(keywords, LAMBDA kw : includes(lowerText, kw))

\* keywords.filter(kw => !lowerText.includes(kw))
missingKeywords(lowerText) == SelectSeq(keywords, LAMBDA kw : ~includes(lowerText, kw))

\* Array.prototype.slice(0, n)
slice(q, n) == SubSeq(q, 1, IF Len(q) < n THEN Len(q) ELSE n)

\* Array.prototype.join(', ')
RECURSIVE join(_)
join(q) ==
  IF q = <<>> THEN ""
  ELSE IF Len(q) = 1 THEN q[1]
  ELSE q[1] \o ", " \o join(Tail(q))

TipMetrics == "Add quantifiable metrics (e.g., \"increased sales by 35%\" or \"managed team of 8 engineers\")"

TipVerbs(missing) == "Include action verbs like: " \o join(slice(missing, 5))

TipExpand == "Expand your experience with specific examples and results achieved"

TipProjects == "Highlight specific projects or initiatives you led or contributed to"

GenericTips ==
  <<"Strong foundation! Consider adding technical skills or certifications relevant to your target role",
    "Include links to portfolio, GitHub, or LinkedIn for additional context",
    "Tailor each bullet point to match keywords from the job description">>

\* the personalised tips, pushed in this order
PersonalTips(text, lowerText, hasMetrics) ==
  (IF ~hasMetrics THEN <<TipMetrics>> ELSE <<>>)
  \o (IF Len(foundKeywords(lowerText)) < 3
        THEN <<TipVerbs(missingKeywords(lowerText))>> ELSE <<>>)
  \o (IF Len(text) < 150 THEN <<TipExpand>> ELSE <<>>)
  \o (IF ~includes(lowerText, "project") /\ ~includes(lowerText, "initiative")
        THEN <<TipProjects>> ELSE <<>>)

\* variant: the generic tips pushed whatever was pushed before
WithGenericAlways(tips) == tips \o GenericTips

\* if (tips.length === 0) the three generic tips
WithGeneric(tips) == IF Len(tips) = 0 THEN GenericTips ELSE tips

\* variant: the bonus from 150 characters on
LengthBonusFrom150(text) == IF Len(text) >= 150 THEN 15 ELSE 0

\* (resumeText.length > 150 ? 15 : 0)
LengthBonus(text) == IF Len(text) > 150 THEN 15 ELSE 0

\* variant: the sum, not capped
MathMinNone(a, b) == b

\* Math.min
MathMin(a, b) == IF a <= b THEN a ELSE b

\* the score
ResumeScore(text, lowerText, hasMetrics) ==
  MathMin(100,
    Len(foundKeywords(lowerText)) * 8
    + (IF hasMetrics THEN 25 ELSE 0)
    + LengthBonus(text)
    + 20)

\* variant: the length of the text as sent decides
TooShortUntrimmed(r) == ~r.given \/ r.text = "" \/ Len(r.text) < 20

\* !resumeText || resumeText.trim().length < 20
TooShort(r) == ~r.given \/ r.text = "" \/ Len(trim(r.text)) < 20

\* the body of the 200 response
ResumeData(text) ==
  LET hasMetrics == metricPatterns(text)
      lowerText == toLowerCase(text)
  IN [score |-> ResumeScore(text, lowerText, hasMetrics),
      tips |-> WithGeneric(PersonalTips(text, lowerText, hasMetrics)),
      foundKeywords |-> slice(foundKeywords(lowerText), 5),
      hasMetrics |-> hasMetrics]

\* the handler: no store statement, one response
AnalyzeResume ==
  /\ resume.out = <<>>
  /\ resume' = [resume EXCEPT !.out =
       IF TooShort(resume)
         THEN <<[code |-> 400, data |-> <<>>]>>
         ELSE <<[code |-> 200, data |-> <<ResumeData(resume.text)>>]>>]
  /\ UNCHANGED <<dbvars, slots, conc, last, sidevars>>

(***************************************************************************)
(* POST /mock-interview: the interview heuristic scorer                    *)
(***************************************************************************)

\* rows kept in interview_practice
MaxPractice == 2

\* a request body field: <<>> when absent, <<v>> when given;
\* a column: <<>> when NULL
Absent == <<>>

CareerUsers == {"ann", "bob"}

Prompts == {Absent, <<"">>, <<"Why?">>}

Durations == {Absent, <<0>>, <<30>>}

\* n words and a trailing space
Words(n) == Repeat("um ", n)

Star4 == "The SITUATION was a task; my action had a result."

ResponseTexts ==
  { "   ",
    "x",
    "candidate",
    " background \t goal\n",
    "Context: outcome",
    Star4,
    Words(8) \o "end",
    Words(9) \o "end",
    Words(59) \o "end",
    Words(79) \o "end",
    Star4 \o " " \o Words(150) }

Responses == {Absent, <<"">>} \cup {<<r>> : r \in ResponseTexts}

\* s.split(/\s+/).length: one piece more than there are runs of whitespace
SplitLength(s) ==
  Cardinality({i \in 1..Len(s) :
                 IsSpace(At(s, i)) /\ (i = 1 \/ ~IsSpace(At(s, i - 1)))}) + 1

\* response.trim().split(/\s+/).length
WordCount(response) == SplitLength(trim(response))

\* /w1|w2|.../i.test(s)
test(ws, s) == \E w \in ws : \E i \in 1..Len(s) : WordAt(s, i, w)

hasSituation(response) == test({"situation", "context", "background"}, response)

hasTask(response) == test({"task", "goal", "objective", "challenge"}, response)

hasAction(response) ==
  test({"action", "did", "implemented", "executed", "performed"}, response)

hasResult(response) ==
  test({"result", "outcome", "impact", "achieved", "accomplished"}, response)

StarComponents(response) ==
  [situation |-> hasSituation(response), task |-> hasTask(response),
   action |-> hasAction(response), result |-> hasResult(response)]

starScore(star) ==
  (IF star.situation THEN 25 ELSE 0) + (IF star.task THEN 25 ELSE 0)
  + (IF star.action THEN 25 ELSE 0) + (IF star.result THEN 25 ELSE 0)

\* variant: the length points are not capped
lengthScoreUncapped(wordCount) == (wordCount \div 10) * 5

\* Math.min(30, Math.floor(wordCount / 10) * 5)
lengthScore(wordCount) == MathMin(30, (wordCount \div 10) * 5)

\* Math.min(100, starScore + lengthScore + 10)
totalScore(star, wordCount) ==
  MathMin(100, starScore(star) + lengthScore(wordCount) + 10)

InterviewFeedback(star, wordCount) ==
  LET feedback ==
        (IF ~star.situation
           THEN <<"Add context: Describe the situation or background">> ELSE <<>>)
        \o (IF ~star.task
              THEN <<"Clarify the task: What was your goal or challenge?">> ELSE <<>>)
        \o (IF ~star.action
              THEN <<"Detail your action: What specific steps did you take?">> ELSE <<>>)
        \o (IF ~star.result
              THEN <<"Share the result: What was the outcome or impact?">> ELSE <<>>)
        \o (IF wordCount < 50
              THEN <<"Expand your response with more details and specific examples">>
              ELSE <<>>)
  IN IF Len(feedback) = 0
       THEN <<"Great STAR structure! Keep practicing to improve confidence and delivery",
              "Consider varying your tone and pacing for better engagement">>
       ELSE feedback

\* the data of the response for one response text
InterviewData(response) ==
  LET wordCount == WordCount(response)
      star == StarComponents(response)
  IN [score |-> totalScore(star, wordCount),
      feedback |-> InterviewFeedback(star, wordCount),
      wordCount |-> wordCount,
      starComponents |-> star]

\* the scorer on each text a request may carry
Scored == [r \in ResponseTexts \cup {""} |-> InterviewData(r)]

\* !prompt || !response
MissingField(f) == f = Absent \/ f[1] = ""

\* variant: only an absent field is refused
PromptOrResponseAbsent(prompt, response) == prompt = Absent \/ response = Absent

PromptOrResponseMissing(prompt, response) ==
  MissingField(prompt) \/ MissingField(response)

\* duration || null
DurationOrNull(duration) ==
  IF duration = Absent \/ duration[1] = 0 THEN Absent ELSE duration

\* FOREIGN KEY (user_id) REFERENCES users(user_id): the caller's token outlives
\* the caller's row
PracticeInsertAllowed(us, u) == \E r \in us : r.user_id = UserIdOf(u)

\* INSERT INTO interview_practice (user_id, prompt, response, duration, score, created_at)
PracticeRow(u, prompt, response, duration, score) ==
  [user_id |-> u, prompt |-> prompt, response |-> response,
   duration |-> DurationOrNull(duration), score |-> score]

CareerRespond(kind, u, req, code, data, failed) ==
  career' = [kind |-> kind, user |-> u, req |-> req, pre |-> interview_practice,
             code |-> code, data |-> data, failed |-> failed]

\* the handler; ok: the INSERT does not throw for a reason other than its key
MockInterview(u, prompt, response, duration, ok) ==
  LET req == <<[prompt |-> prompt, response |-> response, duration |-> duration]>> IN
  /\ Quiet
  /\ InFlight < conc
  /\ Len(interview_practice) < MaxPractice
  /\ IF PromptOrResponseMissing(prompt, response)
       THEN /\ CareerRespond("mock-interview", u, req, 400, <<>>, FALSE)
            /\ UNCHANGED interview_practice
       ELSE IF ~ok \/ ~PracticeInsertAllowed(users, u)
         THEN /\ CareerRespond("mock-interview", u, req, 500, <<>>, TRUE)
              /\ UNCHANGED interview_practice
         ELSE /\ interview_practice' =
                   Append(interview_practice,
                          PracticeRow(u, prompt[1], response[1], duration,
                                      Scored[response[1]].score))
              /\ CareerRespond("mock-interview", u, req, 200,
                               <<Scored[response[1]]>>, FALSE)
  /\ UNCHANGED <<dbvars, slots, conc, last, resume, authvars, chaptervars, calls, answer>>

\* the response goes out to the client
CareerDeliver ==
  /\ career # NoCareer
  /\ career' = NoCareer
  /\ UNCHANGED <<dbvars, slots, conc, last, resume, interview_practice,
                 authvars, chaptervars, calls, answer>>

(***************************************************************************)
(* GET /interview-history                                                  *)
(***************************************************************************)

\* SELECT ... FROM interview_practice WHERE user_id = ?
PracticeOf(practice, u) == SelectSeq(practice, LAMBDA r : r.user_id = u)

\* ORDER BY created_at DESC
Newest(rows) == [i \in 1..Len(rows) |-> rows[Len(rows) + 1 - i]]

\* LIMIT n
Limit(rows, n) == SubSeq(rows, 1, MathMin(n, Len(rows)))

\* SELECT prompt, score, duration ... ORDER BY created_at DESC LIMIT 10
HistoryData(practice, u) ==
  LET rows == Limit(Newest(PracticeOf(practice, u)), 10)
  IN [i \in 1..Len(rows) |->
        [prompt |-> rows[i].prompt, score |-> rows[i].score, duration |-> rows[i].duration]]

\* the handler; thrown: the SELECT throws
InterviewHistory(u, thrown) ==
  /\ Quiet
  /\ InFlight < conc
  /\ IF thrown
       THEN CareerRespond("interview-history", u, <<>>, 500, <<>>, TRUE)
       ELSE CareerRespond("interview-history", u, <<>>, 200,
                          <<HistoryData(interview_practice, u)>>, FALSE)
  /\ UNCHANGED <<dbvars, slots, conc, last, resume, interview_practice,
                 authvars, chaptervars, calls, answer>>

(***************************************************************************)
(* GET /stats: the confidence pulse                                        *)
(***************************************************************************)

\* rows of interview_practice and of applications a stats call may find
MaxStatRows == 5

MaxStatApps == 11

RECURSIVE SumScores(_)
SumScores(rows) == IF rows = <<>> THEN 0 ELSE Head(rows).score + SumScores(Tail(rows))

\* AVG(score): NULL without rows, else a DECIMAL with four decimals, here in
\* ten-thousandths, rounded half up
AvgScore(rows) ==
  IF rows = <<>> THEN Absent
  ELSE <<(2 * 10000 * SumScores(rows) + Len(rows)) \div (2 * Len(rows))>>

\* x || 0 on a column that may be NULL
OrZero(x) == IF x = Absent THEN 0 ELSE x[1]

\* COUNT(*) and the two SUM(CASE ...) over the user's applications
AppStats(as, u) ==
  LET mine == {a \in as : a.user_id = u}
      sum(st) == IF mine = {} THEN Absent
                 ELSE <<Cardinality({a \in mine : a.status = st})>>
  IN [totalApps |-> Cardinality(mine), accepted |-> sum("accepted"),
      shortlisted |-> sum("shortlisted")]

\* Math.round of n / d, for n >= 0 and d > 0
MathRound(n, d) == (2 * n + d) \div (2 * d)

interviewWeight(interviewCount) == MathMin(40, interviewCount * 8)

\* Math.min(30, avgScore * 0.3), in hundred-thousandths (avg4 is in ten-thousandths)
scoreWeight(avg4) == MathMin(30 * 100000, avg4 * 3)

\* variant: the activity weight is not capped
activityWeightUncapped(totalApps) == totalApps * 3

activityWeight(totalApps) == MathMin(30, totalApps * 3)

confidencePulse(interviewCount, avg4, totalApps) ==
  MathRound(interviewWeight(interviewCount) * 100000 + scoreWeight(avg4)
            + activityWeight(totalApps) * 100000, 100000)

\* the response body, from the rows the first SELECT aggregates and the result of
\* the second
StatsFrom(rows, appStats) ==
  LET interviewCount == Len(rows)
      avgScore == OrZero(AvgScore(rows))
      totalApps == appStats.totalApps
  IN [confidencePulse |-> confidencePulse(interviewCount, avgScore, totalApps),
      interviewPracticeCount |-> interviewCount,
      averageInterviewScore |-> MathRound(avgScore, 10000),
      totalApplications |-> totalApps,
      acceptedApplications |-> OrZero(appStats.accepted),
      shortlistedApplications |-> OrZero(appStats.shortlisted)]

StatsData(practice, as, u) == StatsFrom(PracticeOf(practice, u), AppStats(as, u))

\* the handler; thrown: the SELECT that throws (0: none)
Stats(u, thrown) ==
  /\ Quiet
  /\ InFlight < conc
  /\ IF thrown # 0
       THEN CareerRespond("stats", u, <<>>, 500, <<>>, TRUE)
       ELSE CareerRespond("stats", u, <<>>, 200,
                          <<StatsData(interview_practice, applications, u)>>, FALSE)
  /\ UNCHANGED <<dbvars, slots, conc, last, resume, interview_practice,
                 authvars, chaptervars, calls, answer>>

(***************************************************************************)
(* Calls of the auth and chapter routers                                   *)
(***************************************************************************)

SideSnapshot ==
  [users |-> users, profiles |-> profiles, password_resets |-> password_resets,
   alumni_chapters |-> alumni_chapters, chapter_members |-> chapter_members,
   chapter_posts |-> chapter_posts, interview_practice |-> interview_practice]

SideCanStart(s) ==
  /\ calls[s].pc = "idle"
  /\ InFlight < conc
  /\ Quiet

\* the request enters its handler
SideBegin(s, kind, u, req, pc) ==
  /\ calls' = [calls EXCEPT ![s] =
       [pc |-> pc, kind |-> kind, user |-> u, req |-> req, loc |-> <<>>,
        pre |-> IF conc = 1 THEN <<SideSnapshot>> ELSE <<>>]]
  /\ UNCHANGED answer

\* the handler goes on to its next statement, with its locals
SideGoto(s, pc, loc) ==
  /\ calls' = [calls EXCEPT ![s].pc = pc, ![s].loc = loc]
  /\ UNCHANGED answer

\* res.status(code).json(...): the call ends; data: what the body carries
SideRespondData(s, code, failed, mail, data) ==
  /\ calls' = [calls EXCEPT ![s] = NoSideCall]
  /\ answer' = [kind |-> calls[s].kind, user |-> calls[s].user, req |-> calls[s].req,
                pre |-> calls[s].pre, code |-> code, failed |-> failed, mail |-> mail,
                data |-> data]

SideRespond(s, code, failed, mail) == SideRespondData(s, code, failed, mail, <<>>)

\* a request answered by its validation, before the handler's first statement
SideReject(s, kind, u, req, code) ==
  /\ answer' = [kind |-> kind, user |-> u, req |-> req,
                pre |-> IF conc = 1 THEN <<SideSnapshot>> ELSE <<>>,
                code |-> code, failed |-> FALSE, mail |-> "none", data |-> <<>>]
  /\ UNCHANGED calls

\* await sendEmail(...), then the success response
SideNotify(s, o, code) ==
  SideRespond(s, IF sendEmail(o).threw THEN 500 ELSE code, FALSE, o)

\* the response goes out to the client
SideDeliver ==
  /\ answer # NoAnswer
  /\ answer' = NoAnswer
  /\ UNCHANGED <<dbvars, slots, conc, last, resume, interview_practice, career,
                 authvars, chaptervars, calls>>

\* what a step of the auth router leaves alone
AuthFrame ==
  UNCHANGED <<dbvars, slots, conc, last, resume, interview_practice, career,
              chaptervars>>

\* what a step of the chapter router that writes no post leaves alone
ChapterFrame ==
  UNCHANGED <<dbvars, slots, conc, last, resume, interview_practice, career,
              authvars, chapter_posts>>

(***************************************************************************)
(* GET /stats among overlapping calls: its two SELECTs are two steps       *)
(***************************************************************************)

StatsStart(s, u) ==
  /\ SideCanStart(s)
  /\ SideBegin(s, "stats", u, <<>>, "stats_interview")
  /\ UNCHANGED <<dbvars, slots, conc, last, resume, interview_practice, career,
                 authvars, chaptervars>>

\* the aggregate over interview_practice; pre: the applications at this moment
StatsInterview(s) ==
  /\ calls[s].pc = "stats_interview"
  /\ calls' = [calls EXCEPT ![s].pc = "stats_apps",
                            ![s].loc = <<PracticeOf(interview_practice, calls[s].user)>>,
                            ![s].pre = <<[applications |-> applications]>>]
  /\ UNCHANGED <<dbvars, slots, conc, last, resume, interview_practice, career,
                 authvars, chaptervars, answer>>

\* the aggregate over applications, then the response
StatsApps(s) ==
  /\ calls[s].pc = "stats_apps"
  /\ calls' = [calls EXCEPT ![s] = NoSideCall]
  /\ career' = [kind |-> "stats", user |-> calls[s].user, req |-> <<>>,
                pre |-> calls[s].pre, code |-> 200,
                data |-> <<StatsFrom(calls[s].loc[1],
                                     AppStats(applications, calls[s].user))>>,
                failed |-> FALSE]
  /\ UNCHANGED <<dbvars, slots, conc, last, resume, interview_practice,
                 authvars, chaptervars, answer>>

(***************************************************************************)
(* The auth router: register, forgot-password, reset-password              *)
(***************************************************************************)

\* rows of users; rows of password_resets
MaxUsers == 2

MaxResets == 2

Emails == {"ann@x.io", "bob@x.io", "bad"}

Passwords == {"abc", "secret2"}

Names == {" ", "Bob"}

RegisterRoles == {"job_seeker", "job_poster", "alumni", "student"}

\* the values of req.body.role tried
RoleArgs == {"job_poster", "admin"}

\* the values Math.random() may give a reset token
ResetTokens == {"tok1", "tok2"}

\* the values of req.body.token tried
TokenArgs == {Absent, <<"tok1">>, <<"nope">>}

PasswordArgs == {Absent} \cup {<<p>> : p \in Passwords}

\* bcrypt.hash(password, 10)
Hash(password) == "$2a$10$" \o password

\* body('email').isEmail(): something before and after an @
isEmail(email) == \E i \in 2..(Len(email) - 1) : At(email, i) = "@"

\* variant: the chain without body('role').isIn([...])
ValidRegistrationAnyRole(req) ==
  /\ trim(req.name) # ""
  /\ isEmail(req.email)
  /\ Len(req.password) >= 6

\* the validation chain of /register (express-validator)
ValidRegistration(req) ==
  /\ trim(req.name) # ""
  /\ isEmail(req.email)
  /\ Len(req.password) >= 6
  /\ req.role \in RegisterRoles

\* SELECT * FROM users WHERE email = ?
SelectUser(us, email) == {u \in us : u.email = email}

\* INSERT INTO users (name, email, phone, password, role): email is UNIQUE
InsertUser(us, id, req) ==
  us \cup {[user_id |-> id, name |-> req.name, email |-> req.email,
            password |-> Hash(req.password), role |-> req.role, status |-> "active"]}

\* SELECT * FROM password_resets WHERE token = ? AND expires_at > NOW();
\* a token that is not given is bound as NULL and matches no row
SelectReset(rs, token) ==
  IF token = Absent THEN {}
  ELSE {r \in rs : r.token = token[1] /\ ~r.expired}

\* UPDATE users SET password = ? WHERE email = ?
SetPassword(us, email, hashed) ==
  {IF u.email = email THEN [u EXCEPT !.password = hashed] ELSE u : u \in us}

\* DELETE FROM password_resets WHERE token = ?
DeleteReset(rs, token) == {r \in rs : r.token # token}

RegisterInFlight == Cardinality({s \in Slots : calls[s].kind = "register"})

ForgotInFlight == Cardinality({s \in Slots : calls[s].kind = "forgot-password"})

\* POST /register: validationResult is consulted first
RegisterStart(s, req) ==
  /\ SideCanStart(s)
  /\ nextUserId + RegisterInFlight <= MaxUsers
  /\ IF ValidRegistration(req)
       THEN SideBegin(s, "register", "none", <<req>>, "register_select")
       ELSE SideReject(s, "register", "none", <<req>>, 400)
  /\ UNCHANGED authvars
  /\ AuthFrame

RegisterSelect(s) ==
  /\ calls[s].pc = "register_select"
  /\ IF SelectUser(users, calls[s].req[1].email) # {}
       THEN SideRespond(s, 400, FALSE, "none")
       ELSE SideGoto(s, "register_insert", <<>>)
  /\ UNCHANGED authvars
  /\ AuthFrame

RegisterInsert(s) ==
  /\ calls[s].pc = "register_insert"
  /\ IF SelectUser(users, calls[s].req[1].email) = {}
       THEN /\ users' = InsertUser(users, nextUserId, calls[s].req[1])
            /\ nextUserId' = nextUserId + 1
            /\ SideGoto(s, "register_profile", <<nextUserId>>)
       ELSE /\ UNCHANGED <<users, nextUserId>>
            /\ SideRespond(s, 500, FALSE, "none")
  /\ UNCHANGED <<profiles, password_resets>>
  /\ AuthFrame

\* INSERT INTO profiles (user_id) VALUES (result.insertId)
RegisterProfile(s) ==
  /\ calls[s].pc = "register_profile"
  /\ profiles' = profiles \cup {[user_id |-> calls[s].loc[1]]}
  /\ SideGoto(s, "register_email", calls[s].loc)
  /\ UNCHANGED <<users, password_resets, nextUserId>>
  /\ AuthFrame

RegisterEmail(s) ==
  /\ calls[s].pc = "register_email"
  /\ \E o \in NotifierOutcomes : SideNotify(s, o, 201)
  /\ UNCHANGED authvars
  /\ AuthFrame

\* POST /forgot-password: the isEmail() chain is declared, validationResult is
\* never consulted
ForgotStart(s, email) ==
  /\ SideCanStart(s)
  /\ Cardinality(password_resets) + ForgotInFlight < MaxResets
  /\ SideBegin(s, "forgot-password", "none", <<[email |-> email]>>, "forgot_select")
  /\ UNCHANGED authvars
  /\ AuthFrame

ForgotSelect(s) ==
  /\ calls[s].pc = "forgot_select"
  /\ IF SelectUser(users, calls[s].req[1].email) = {}
       THEN SideRespond(s, 404, FALSE, "none")
       ELSE SideGoto(s, "forgot_insert", <<>>)
  /\ UNCHANGED authvars
  /\ AuthFrame

\* INSERT INTO password_resets (email, token, expires_at), the token from Math.random()
ForgotInsert(s) ==
  /\ calls[s].pc = "forgot_insert"
  /\ \E tok \in ResetTokens \ {r.token : r \in password_resets} :
       /\ password_resets' = password_resets \cup
            {[email |-> calls[s].req[1].email, token |-> tok, expired |-> FALSE]}
       /\ SideGoto(s, "forgot_email", <<tok>>)
  /\ UNCHANGED <<users, profiles, nextUserId>>
  /\ AuthFrame

ForgotEmail(s) ==
  /\ calls[s].pc = "forgot_email"
  /\ \E o \in NotifierOutcomes : SideNotify(s, o, 200)
  /\ UNCHANGED authvars
  /\ AuthFrame

\* an hour passes: expires_at > NOW() no longer holds
Expire(tok) ==
  /\ \E r \in password_resets : r.token = tok /\ ~r.expired
  /\ password_resets' =
       {IF r.token = tok THEN [r EXCEPT !.expired = TRUE] ELSE r : r \in password_resets}
  /\ UNCHANGED <<users, profiles, nextUserId, calls, answer>>
  /\ AuthFrame

\* POST /reset-password: the notEmpty() and isLength({min: 6}) chains are declared,
\* validationResult is never consulted
ResetStart(s, token, password) ==
  /\ SideCanStart(s)
  /\ SideBegin(s, "reset-password", "none",
               <<[token |-> token, password |-> password]>>, "reset_select")
  /\ UNCHANGED authvars
  /\ AuthFrame

\* the SELECT, then bcrypt.hash, which throws on a password that is not given
ResetSelect(s) ==
  /\ calls[s].pc = "reset_select"
  /\ LET resets == SelectReset(password_resets, calls[s].req[1].token) IN
     IF resets = {}
       THEN SideRespond(s, 400, FALSE, "none")
       ELSE IF calls[s].req[1].password = Absent
         THEN SideRespond(s, 500, FALSE, "none")
         ELSE \E reset \in resets : SideGoto(s, "reset_update", <<reset>>)
  /\ UNCHANGED authvars
  /\ AuthFrame

ResetUpdate(s) ==
  /\ calls[s].pc = "reset_update"
  /\ users' = SetPassword(users, calls[s].loc[1].email, Hash(calls[s].req[1].password[1]))
  /\ SideGoto(s, "reset_delete", calls[s].loc)
  /\ UNCHANGED <<profiles, password_resets, nextUserId>>
  /\ AuthFrame

ResetDelete(s) ==
  /\ calls[s].pc = "reset_delete"
  /\ password_resets' = DeleteReset(password_resets, calls[s].req[1].token[1])
  /\ SideRespond(s, 200, FALSE, "none")
  /\ UNCHANGED <<users, profiles, nextUserId>>
  /\ AuthFrame

(***************************************************************************)
(* The auth router: login; the user router: profile update                 *)
(***************************************************************************)

\* the values of req.body.password tried at login
LoginPasswords == {"", "secret1", "wrong1"}

\* body('email').isEmail(), body('password').notEmpty()
ValidLogin(req) == isEmail(req.email) /\ req.password # ""

\* bcrypt.compare(password, user.password)
Compare(password, hashed) == Hash(password) = hashed

\* jwt.sign({ userId, email, role }, ...)
Sign(user) == [userId |-> user.user_id, email |-> user.email, role |-> user.role]

\* variant: the status of the account is not looked at
SuspendedNever(user) == FALSE

\* user.status === 'suspended'
Suspended(user) == user.status = "suspended"

\* POST /login: validationResult is consulted first
LoginStart(s, email, password) ==
  LET req == <<[email |-> email, password |-> password]>> IN
  /\ SideCanStart(s)
  /\ IF ValidLogin(req[1])
       THEN SideBegin(s, "login", "none", req, "login_select")
       ELSE SideReject(s, "login", "none", req, 400)
  /\ UNCHANGED authvars
  /\ AuthFrame

\* the SELECT, the status check, bcrypt.compare, jwt.sign
LoginSelect(s) ==
  /\ calls[s].pc = "login_select"
  /\ LET found == SelectUser(users, calls[s].req[1].email) IN
     IF found = {}
       THEN SideRespond(s, 401, FALSE, "none")
       ELSE \E user \in found :
              IF Suspended(user)
                THEN SideRespond(s, 403, FALSE, "none")
                ELSE IF ~Compare(calls[s].req[1].password, user.password)
                  THEN SideRespond(s, 401, FALSE, "none")
                  ELSE SideRespondData(s, 200, FALSE, "none", <<Sign(user)>>)
  /\ UNCHANGED authvars
  /\ AuthFrame

\* UPDATE users SET name = ?, phone = ? WHERE user_id = ?
SetName(us, id, name) ==
  {IF u.user_id = id THEN [u EXCEPT !.name = name] ELSE u : u \in us}

\* PUT /profile; id: req.user.userId
ProfileUpdateStart(s, id, name) ==
  /\ SideCanStart(s)
  /\ SideBegin(s, "profile-update", "none", <<[userId |-> id, name |-> name]>>,
               "profile_users")
  /\ UNCHANGED authvars
  /\ AuthFrame

ProfileUpdateUsers(s) ==
  /\ calls[s].pc = "profile_users"
  /\ users' = SetName(users, calls[s].req[1].userId, calls[s].req[1].name)
  /\ SideGoto(s, "profile_profiles", <<>>)
  /\ UNCHANGED <<profiles, password_resets, nextUserId>>
  /\ AuthFrame

\* UPDATE profiles SET education = ?, ... WHERE user_id = ?: none of the columns
\* kept here
ProfileUpdateProfiles(s) ==
  /\ calls[s].pc = "profile_profiles"
  /\ SideRespond(s, 200, FALSE, "none")
  /\ UNCHANGED authvars
  /\ AuthFrame

\* the statement the call is about to run is a store statement
AtStoreStatement(pc) == pc \notin {"idle", "register_email", "forgot_email"}

\* a store statement of the auth or chapter router throws: the catch answers 500
SideFail(s) ==
  /\ AtStoreStatement(calls[s].pc)
  /\ SideRespond(s, 500, TRUE, "none")
  /\ UNCHANGED <<dbvars, slots, conc, last, resume, interview_practice, career,
                 authvars, chaptervars>>

(***************************************************************************)
(* The chapter router: create, join                                        *)
(***************************************************************************)

\* rows of alumni_chapters; rows of chapter_members
MaxChapters == 2

MaxMembers == 3

ChapterUsers == {"ann", "bob"}

\* the values of req.params.id tried
ChapterArgs == {1, 2}

\* the values of chapter_name and college_name tried
ChapterNames == {"", "Alumni"}

MemberStatuses == {"pending", "approved", "rejected"}

\* body('chapter_name').notEmpty(), body('college_name').notEmpty()
ValidChapter(req) == req.chapter_name # "" /\ req.college_name # ""

\* INSERT INTO alumni_chapters (...): member_count defaults to 0
InsertChapter(cs, id, u, req) ==
  cs \cup {[chapter_id |-> id, chapter_name |-> req.chapter_name, created_by |-> u,
            member_count |-> 0]}

\* SELECT * FROM chapter_members WHERE chapter_id = ? AND user_id = ?
SelectMembership(ms, c, u) == {m \in ms : m.chapter_id = c /\ m.user_id = u}

\* variant: no UNIQUE KEY unique_membership
MemberInsertAllowedNoUnique(cs, ms, c, u) == {r \in cs : r.chapter_id = c} # {}

\* FOREIGN KEY (chapter_id), UNIQUE KEY unique_membership (chapter_id, user_id)
MemberInsertAllowed(cs, ms, c, u) ==
  /\ {r \in cs : r.chapter_id = c} # {}
  /\ {m \in ms : m.chapter_id = c /\ m.user_id = u} = {}

\* INSERT INTO chapter_members (chapter_id, user_id, role, status)
InsertMember(ms, id, c, u, role, status) ==
  ms \cup {[id |-> id, chapter_id |-> c, user_id |-> u, role |-> role, status |-> status]}

\* UPDATE alumni_chapters SET member_count = 1 WHERE chapter_id = ?
SetMemberCount(cs, c, n) ==
  {IF r.chapter_id = c THEN [r EXCEPT !.member_count = n] ELSE r : r \in cs}

CreateInFlight == Cardinality({s \in Slots : calls[s].kind = "create-chapter"})

MemberInsertsInFlight ==
  Cardinality({s \in Slots : calls[s].kind \in {"create-chapter", "join"}})

\* POST /chapters: validationResult is consulted first
CreateStart(s, u, req) ==
  /\ SideCanStart(s)
  /\ nextChapterId + CreateInFlight <= MaxChapters
  /\ nextMemberId + MemberInsertsInFlight <= MaxMembers
  /\ IF ValidChapter(req)
       THEN SideBegin(s, "create-chapter", u, <<req>>, "create_insert")
       ELSE SideReject(s, "create-chapter", u, <<req>>, 400)
  /\ UNCHANGED chaptervars
  /\ ChapterFrame

CreateInsert(s) ==
  /\ calls[s].pc = "create_insert"
  /\ alumni_chapters' =
       InsertChapter(alumni_chapters, nextChapterId, calls[s].user, calls[s].req[1])
  /\ nextChapterId' = nextChapterId + 1
  /\ SideGoto(s, "create_member", <<nextChapterId>>)
  /\ UNCHANGED <<chapter_members, nextMemberId>>
  /\ ChapterFrame

\* the creator becomes an approved admin member
CreateMember(s) ==
  /\ calls[s].pc = "create_member"
  /\ IF MemberInsertAllowed(alumni_chapters, chapter_members, calls[s].loc[1], calls[s].user)
       THEN /\ chapter_members' =
                 InsertMember(chapter_members, nextMemberId, calls[s].loc[1],
                              calls[s].user, "admin", "approved")
            /\ nextMemberId' = nextMemberId + 1
            /\ SideGoto(s, "create_count", calls[s].loc)
       ELSE /\ UNCHANGED <<chapter_members, nextMemberId>>
            /\ SideRespond(s, 500, FALSE, "none")
  /\ UNCHANGED <<alumni_chapters, nextChapterId>>
  /\ ChapterFrame

CreateCount(s) ==
  /\ calls[s].pc = "create_count"
  /\ alumni_chapters' = SetMemberCount(alumni_chapters, calls[s].loc[1], 1)
  /\ SideRespond(s, 201, FALSE, "none")
  /\ UNCHANGED <<chapter_members, nextChapterId, nextMemberId>>
  /\ ChapterFrame

\* POST /chapters/:id/join
JoinStart(s, u, c) ==
  /\ SideCanStart(s)
  /\ nextMemberId + MemberInsertsInFlight <= MaxMembers
  /\ SideBegin(s, "join", u, <<[id |-> c]>>, "join_check")
  /\ UNCHANGED chaptervars
  /\ ChapterFrame

JoinCheck(s) ==
  /\ calls[s].pc = "join_check"
  /\ IF SelectMembership(chapter_members, calls[s].req[1].id, calls[s].user) # {}
       THEN SideRespond(s, 400, FALSE, "none")
       ELSE SideGoto(s, "join_insert", <<>>)
  /\ UNCHANGED chaptervars
  /\ ChapterFrame

JoinInsert(s) ==
  /\ calls[s].pc = "join_insert"
  /\ IF MemberInsertAllowed(alumni_chapters, chapter_members, calls[s].req[1].id,
                            calls[s].user)
       THEN /\ chapter_members' =
                 InsertMember(chapter_members, nextMemberId, calls[s].req[1].id,
                              calls[s].user, "member", "pending")
            /\ nextMemberId' = nextMemberId + 1
            /\ SideRespond(s, 201, FALSE, "none")
       ELSE /\ UNCHANGED <<chapter_members, nextMemberId>>
            /\ SideRespond(s, 500, FALSE, "none")
  /\ UNCHANGED <<alumni_chapters, nextChapterId>>
  /\ ChapterFrame

(***************************************************************************)
(* The chapter router: approve or reject a member                          *)
(***************************************************************************)

\* the highest member_count a chapter is taken to
MaxCount == 3

\* the values of req.params.memberId tried
MemberArgs == {1, 2, 3}

\* the values of req.body.status tried
MemberStatusArgs == {"approved", "rejected", "pending"}

\* ['approved', 'rejected'].includes(status)
ValidMemberStatus(status) == status \in {"approved", "rejected"}

\* SELECT * FROM chapter_members WHERE chapter_id = ? AND user_id = ? AND role = 'admin'
SelectChapterAdmins(ms, c, u) ==
  {m \in ms : m.chapter_id = c /\ m.user_id = u /\ m.role = "admin"}

\* admins.length === 0 && req.user.role !== 'admin'
MemberUpdateForbidden(admins, u) == admins = {} /\ RoleOf(u) # "admin"

\* UPDATE chapter_members SET status = ? WHERE id = ?
SetMemberStatus(ms, id, status) ==
  {IF m.id = id THEN [m EXCEPT !.status = status] ELSE m : m \in ms}

\* UPDATE alumni_chapters SET member_count = member_count + 1 WHERE chapter_id = ?
IncrementMemberCount(cs, c) ==
  {IF r.chapter_id = c THEN [r EXCEPT !.member_count = @ + 1] ELSE r : r \in cs}

\* PUT /chapters/:id/members/:memberId
MemberUpdateStart(s, u, c, memberId, status) ==
  LET req == <<[id |-> c, memberId |-> memberId, status |-> status]>> IN
  /\ SideCanStart(s)
  /\ \A r \in alumni_chapters : r.member_count < MaxCount
  /\ IF ValidMemberStatus(status)
       THEN SideBegin(s, "member-update", u, req, "member_check")
       ELSE SideReject(s, "member-update", u, req, 400)
  /\ UNCHANGED chaptervars
  /\ ChapterFrame

MemberUpdateCheck(s) ==
  /\ calls[s].pc = "member_check"
  /\ IF MemberUpdateForbidden(
          SelectChapterAdmins(chapter_members, calls[s].req[1].id, calls[s].user),
          calls[s].user)
       THEN SideRespond(s, 403, FALSE, "none")
       ELSE SideGoto(s, "member_write", <<>>)
  /\ UNCHANGED chaptervars
  /\ ChapterFrame

MemberUpdateWrite(s) ==
  /\ calls[s].pc = "member_write"
  /\ chapter_members' =
       SetMemberStatus(chapter_members, calls[s].req[1].memberId, calls[s].req[1].status)
  /\ IF calls[s].req[1].status = "approved"
       THEN SideGoto(s, "member_count", <<>>)
       ELSE SideRespond(s, 200, FALSE, "none")
  /\ UNCHANGED <<alumni_chapters, nextChapterId, nextMemberId>>
  /\ ChapterFrame

MemberUpdateCount(s) ==
  /\ calls[s].pc = "member_count"
  /\ alumni_chapters' = IncrementMemberCount(alumni_chapters, calls[s].req[1].id)
  /\ SideRespond(s, 200, FALSE, "none")
  /\ UNCHANGED <<chapter_members, nextChapterId, nextMemberId>>
  /\ ChapterFrame

(***************************************************************************)
(* The chapter router: posts                                               *)
(***************************************************************************)

\* rows kept in chapter_posts
MaxPosts == 2

PostTypes == {"job", "internship", "announcement", "event", "mentoring"}

\* the bodies of POST /:id/posts tried
PostReqs ==
  {[type |-> "event", title |-> "Meetup", description |-> "Friday"],
   [type |-> "party", title |-> "Meetup", description |-> "Friday"],
   [type |-> "event", title |-> "", description |-> "Friday"]}

\* the validation chain of POST /:id/posts
ValidPost(req) ==
  /\ req.type \in PostTypes
  /\ req.title # ""
  /\ req.description # ""

\* variant: a membership row in any status
SelectApprovedAny(ms, c, u) == {m \in ms : m.chapter_id = c /\ m.user_id = u}

\* SELECT * FROM chapter_members WHERE chapter_id = ? AND user_id = ? AND status = 'approved'
SelectApproved(ms, c, u) ==
  {m \in ms : m.chapter_id = c /\ m.user_id = u /\ m.status = "approved"}

\* membership.length === 0 && req.user.role !== 'admin'
PostsForbidden(membership, u) == membership = {} /\ RoleOf(u) # "admin"

\* SELECT cp.* ... FROM chapter_posts cp WHERE cp.chapter_id = ? AND cp.status = 'active'
\* ORDER BY cp.created_at DESC
SelectPosts(ps, c) == Newest(SelectSeq(ps, LAMBDA q : q.chapter_id = c /\ q.status = "active"))

\* FOREIGN KEY (chapter_id) REFERENCES alumni_chapters(chapter_id)
PostInsertAllowed(cs, c) == \E r \in cs : r.chapter_id = c

\* INSERT INTO chapter_posts (chapter_id, posted_by, type, title, ...): status
\* defaults to active
PostRow(c, u, req) ==
  [chapter_id |-> c, posted_by |-> u, type |-> req.type, title |-> req.title,
   status |-> "active"]

\* GET /chapters/:id/posts
PostsGetStart(s, u, c) ==
  /\ SideCanStart(s)
  /\ SideBegin(s, "get-posts", u, <<[id |-> c]>>, "posts_check")
  /\ UNCHANGED chaptervars
  /\ ChapterFrame

PostsGetCheck(s) ==
  /\ calls[s].pc = "posts_check"
  /\ IF PostsForbidden(SelectApproved(chapter_members, calls[s].req[1].id, calls[s].user),
                       calls[s].user)
       THEN SideRespond(s, 403, FALSE, "none")
       ELSE SideGoto(s, "posts_select", <<>>)
  /\ UNCHANGED chaptervars
  /\ ChapterFrame

PostsGetSelect(s) ==
  /\ calls[s].pc = "posts_select"
  /\ SideRespondData(s, 200, FALSE, "none", SelectPosts(chapter_posts, calls[s].req[1].id))
  /\ UNCHANGED chaptervars
  /\ ChapterFrame

\* POST /chapters/:id/posts: validationResult is consulted first
PostCreateStart(s, u, c, req) ==
  LET r == <<[id |-> c, type |-> req.type, title |-> req.title,
              description |-> req.description]>> IN
  /\ SideCanStart(s)
  /\ Len(chapter_posts) < MaxPosts
  /\ IF ValidPost(req)
       THEN SideBegin(s, "create-post", u, r, "post_check")
       ELSE SideReject(s, "create-post", u, r, 400)
  /\ UNCHANGED chaptervars
  /\ ChapterFrame

PostCreateCheck(s) ==
  /\ calls[s].pc = "post_check"
  /\ IF PostsForbidden(SelectApproved(chapter_members, calls[s].req[1].id, calls[s].user),
                       calls[s].user)
       THEN SideRespond(s, 403, FALSE, "none")
       ELSE SideGoto(s, "post_insert", <<>>)
  /\ UNCHANGED chaptervars
  /\ ChapterFrame

PostCreateInsert(s) ==
  /\ calls[s].pc = "post_insert"
  /\ IF PostInsertAllowed(alumni_chapters, calls[s].req[1].id)
       THEN /\ chapter_posts' =
                 Append(chapter_posts,
                        PostRow(calls[s].req[1].id, calls[s].user, calls[s].req[1]))
            /\ SideRespond(s, 201, FALSE, "none")
       ELSE /\ UNCHANGED chapter_posts
            /\ SideRespond(s, 500, FALSE, "none")
  /\ UNCHANGED <<alumni_chapters, chapter_members, nextChapterId, nextMemberId>>
  /\ UNCHANGED <<dbvars, slots, conc, last, resume, interview_practice, career, authvars>>

(***************************************************************************)
(* The admin router: delete a user                                         *)
(***************************************************************************)

\* router.use(authorizeRoles('admin'))
AdminRoles == {"admin"}

\* the values of req.params.id tried
UserIdArgs == {1, 2, 5}

\* DELETE FROM users WHERE user_id = ?
DeleteUserRow(us, id) == {u \in us : u.user_id # id}

\* profiles: FOREIGN KEY (user_id) ... ON DELETE CASCADE
CascadeProfiles(ps, id) == {q \in ps : q.user_id # id}

\* jobs: FOREIGN KEY (user_id) ... ON DELETE CASCADE
CascadeUserJobs(js, id) == {j \in js : UserIdOf(j.user_id) # id}

\* applications: the user's rows, and the rows of the user's jobs
CascadeUserApplications(as, js, id) ==
  {a \in as : UserIdOf(a.user_id) # id /\ \E j \in js : j.job_id = a.job_id}

\* alumni_chapters: FOREIGN KEY (created_by) ... ON DELETE CASCADE
CascadeUserChapters(cs, id) == {c \in cs : UserIdOf(c.created_by) # id}

\* chapter_members: the user's rows, and the rows of the user's chapters
CascadeUserMembers(ms, cs, id) ==
  {m \in ms : UserIdOf(m.user_id) # id /\ \E c \in cs : c.chapter_id = m.chapter_id}

\* chapter_posts: the user's rows, and the rows of the user's chapters
CascadeUserPosts(ps, cs, id) ==
  SelectSeq(ps, LAMBDA q : UserIdOf(q.posted_by) # id
                           /\ \E c \in cs : c.chapter_id = q.chapter_id)

\* variant: the cascade empties the table
CascadePracticeAll(rows, id) == <<>>

\* interview_practice: FOREIGN KEY (user_id) ... ON DELETE CASCADE
CascadePractice(rows, id) == SelectSeq(rows, LAMBDA r : UserIdOf(r.user_id) # id)

\* DELETE /admin/users/:id
DeleteUserStart(s, u, id) ==
  /\ SideCanStart(s)
  /\ IF authorizeRoles(u, AdminRoles)
       THEN SideBegin(s, "delete-user", u, <<[id |-> id]>>, "delete_user")
       ELSE SideReject(s, "delete-user", u, <<[id |-> id]>>, 403)
  /\ UNCHANGED <<dbvars, slots, conc, last, resume, interview_practice, career,
                 authvars, chaptervars>>

\* the DELETE with the cascades it sets off; an id without a row deletes nothing
DeleteUserWrite(s) ==
  LET id == calls[s].req[1].id
      gone == IF \E u \in users : u.user_id = id THEN id ELSE 0
      js == CascadeUserJobs(jobs, gone)
      cs == CascadeUserChapters(alumni_chapters, gone)
  IN /\ calls[s].pc = "delete_user"
     /\ users' = DeleteUserRow(users, id)
     /\ profiles' = CascadeProfiles(profiles, gone)
     /\ jobs' = js
     /\ applications' = CascadeUserApplications(applications, js, gone)
     /\ alumni_chapters' = cs
     /\ chapter_members' = CascadeUserMembers(chapter_members, cs, gone)
     /\ chapter_posts' = CascadeUserPosts(chapter_posts, cs, gone)
     /\ interview_practice' = CascadePractice(interview_practice, gone)
     /\ SideRespond(s, 200, FALSE, "none")
     /\ UNCHANGED <<nextAppId, slots, conc, last, resume, career, password_resets,
                    nextUserId, nextChapterId, nextMemberId>>

\* the values of req.body.status sent to PUT /admin/users/:id/status
UserStatusArgs == {"active", "suspended", "pending", "banned"}

\* ['active', 'suspended', 'pending'].includes(status)
ValidUserStatus(status) == status \in {"active", "suspended", "pending"}

\* UPDATE users SET status = ? WHERE user_id = ?
SetUserStatus(us, id, status) ==
  {IF r.user_id = id THEN [r EXCEPT !.status = status] ELSE r : r \in us}

\* PUT /admin/users/:id/status
UserStatusStart(s, u, id, status) ==
  LET req == <<[id |-> id, status |-> status]>> IN
  /\ SideCanStart(s)
  /\ IF ~authorizeRoles(u, AdminRoles)
       THEN SideReject(s, "user-status", u, req, 403)
       ELSE IF ~ValidUserStatus(status)
         THEN SideReject(s, "user-status", u, req, 400)
         ELSE SideBegin(s, "user-status", u, req, "user_status")
  /\ UNCHANGED authvars
  /\ AuthFrame

UserStatusWrite(s) ==
  /\ calls[s].pc = "user_status"
  /\ users' = SetUserStatus(users, calls[s].req[1].id, calls[s].req[1].status)
  /\ SideRespond(s, 200, FALSE, "none")
  /\ UNCHANGED <<profiles, password_resets, nextUserId>>
  /\ AuthFrame

(***************************************************************************)
(* A store statement that throws: the handler's catch answers 500          *)
(***************************************************************************)

\* variant: the failure is swallowed and the call answers success
StoreFailSwallowed(s) ==
  /\ slots[s].pc # "idle"
  /\ authorizeRoles(slots[s].user, Gate(slots[s].kind))
  /\ UNCHANGED dbvars
  /\ Respond(s, 200, TRUE)

StoreFail(s) ==
  /\ slots[s].pc # "idle"
  /\ authorizeRoles(slots[s].user, Gate(slots[s].kind))
  /\ slots[s].pc = "status_select" => ValidStatus(slots[s].req)
  /\ UNCHANGED dbvars
  /\ Respond(s, 500, TRUE)

(***************************************************************************)
(* Specifications                                                          *)
(***************************************************************************)

\* the account of ann
InitUsers ==
  {[user_id |-> 1, name |-> "ann", email |-> "ann@x.io", password |-> Hash("secret1"),
    role |-> "job_seeker", status |-> "active"]}

InitAuthTables ==
  /\ users = InitUsers
  /\ profiles = {[user_id |-> 1]}
  /\ password_resets = {}
  /\ nextUserId = 2

\* the chapter of bob
InitChapters ==
  {[chapter_id |-> 1, chapter_name |-> "Alumni", created_by |-> "bob", member_count |-> 1]}

InitMembers ==
  {[id |-> 1, chapter_id |-> 1, user_id |-> "bob", role |-> "admin", status |-> "approved"]}

\* the auth and chapter routers at rest
InitSide ==
  /\ InitAuthTables
  /\ alumni_chapters = InitChapters
  /\ chapter_members = InitMembers
  /\ nextChapterId = 2
  /\ nextMemberId = 2
  /\ chapter_posts = <<>>
  /\ calls = [s \in Slots |-> NoSideCall]
  /\ answer = NoAnswer

InitJobs ==
  {[job_id |-> 1, user_id |-> "bob", title |-> "t1", applications_count |-> 0]}

\* no analyze-resume request
NoResume == [given |-> FALSE, text |-> "", out |-> <<>>]

InitStore ==
  /\ jobs = InitJobs
  /\ applications = {}
  /\ nextAppId = 1
  /\ slots = [s \in Slots |-> Idle]
  /\ last = NoCall
  /\ resume = NoResume
  /\ interview_practice = <<>>
  /\ career = NoCareer
  /\ InitSide

\* calls overlap
Init ==
  /\ InitStore
  /\ conc = 2

\* one call after the other
InitSeq ==
  /\ InitStore
  /\ conc = 1

NextOf(U, Ids, Sts, Ts) ==
  \/ Deliver
  \/ \E s \in Slots :
       \/ \E u \in U, j \in Ids : ApplyStart(s, u, j)
       \/ ApplyCheck(s)
       \/ ApplyProfile(s)
       \/ ApplyInsert(s)
       \/ ApplyCount(s)
       \/ ApplyNotify(s)
       \/ \E u \in U, a \in Ids : WithdrawStart(s, u, a)
       \/ WithdrawSelect(s)
       \/ WithdrawDelete(s)
       \/ WithdrawCount(s)
       \/ \E u \in U, a \in Ids, st \in Sts : StatusStart(s, u, a, st)
       \/ StatusSelect(s)
       \/ StatusUpdate(s)
       \/ \E u \in U, j \in Ids, t \in Ts : JobUpdateStart(s, u, j, t)
       \/ JobUpdateSelect(s)
       \/ JobUpdateWrite(s)
       \/ \E u \in U, j \in Ids : JobDeleteStart(s, u, j)
       \/ JobDeleteSelect(s)
       \/ JobDeleteWrite(s)
       \/ StoreFail(s)

Next == NextOf({"ann", "bob", "dan"}, {1}, {"accepted"}, {"t2"})

NextSeq == NextOf(Users, IdArgs, {"accepted", BadStatus}, {"t2"})

NextStatus == NextOf({"ann", "bob", "dan"}, {1}, StatusArgs, {"t2"})

Spec == Init /\ [][Next]_vars

SpecSeq == InitSeq /\ [][NextSeq]_vars

SpecStatus == InitSeq /\ [][NextStatus]_vars

\* one analyze-resume request: no resumeText, or one of Texts
InitResume ==
  /\ jobs = InitJobs
  /\ applications = {}
  /\ nextAppId = 1
  /\ slots = [s \in Slots |-> Idle]
  /\ last = NoCall
  /\ conc = 1
  /\ resume \in {NoResume} \cup {[given |-> TRUE, text |-> t, out |-> <<>>] : t \in Texts}
  /\ interview_practice = <<>>
  /\ career = NoCareer
  /\ InitSide

NextResume == AnalyzeResume

SpecResume == InitResume /\ [][NextResume]_vars

\* mock-interview calls, one after the other
NextInterview ==
  \/ CareerDeliver
  \/ \E u \in CareerUsers, prompt \in Prompts, response \in Responses,
        duration \in Durations, ok \in BOOLEAN :
       MockInterview(u, prompt, response, duration, ok)

SpecInterview == InitSeq /\ [][NextInterview]_vars

\* the rows a stats call may find: practice rows the scorer produced
StatRows ==
  { PracticeRow("ann", "Why?", "x", Absent, Scored["x"].score),
    PracticeRow("ann", "Why?", Star4, <<30>>, Scored[Star4].score),
    PracticeRow("bob", "Why?", "Context: outcome", <<30>>, Scored["Context: outcome"].score) }

StatStatus(i) ==
  IF i % 3 = 0 THEN "accepted" ELSE IF i % 3 = 1 THEN "shortlisted" ELSE "pending"

\* k jobs of bob, each with the application of ann; cat applied to the first if other
InitStats ==
  /\ \E k \in 0..MaxStatApps, other \in BOOLEAN :
       LET rows == {[application_id |-> i, job_id |-> i, user_id |-> "ann",
                     status |-> StatStatus(i)] : i \in 1..k}
           more == IF other /\ k > 0
                     THEN {[application_id |-> k + 1, job_id |-> 1, user_id |-> "cat",
                            status |-> "accepted"]}
                     ELSE {}
       IN /\ applications = rows \cup more
          /\ jobs = {[job_id |-> i, user_id |-> "bob", title |-> "t1",
                      applications_count |->
                        Cardinality({a \in rows \cup more : a.job_id = i})] : i \in 1..k}
          /\ nextAppId = Cardinality(rows \cup more) + 1
  /\ slots = [s \in Slots |-> Idle]
  /\ last = NoCall
  /\ conc = 1
  /\ resume = NoResume
  /\ interview_practice \in UNION {[1..n -> StatRows] : n \in 0..MaxStatRows}
  /\ career = NoCareer
  /\ InitSide

NextStats ==
  \/ CareerDeliver
  \/ \E u \in {"ann", "bob", "cat"}, thrown \in 0..2 : Stats(u, thrown)

SpecStats == InitStats /\ [][NextStats]_vars

\* the auth router, one call after the other
RegisterReqs ==
  {[name |-> n, email |-> e, password |-> p, role |-> r] :
     n \in Names, e \in Emails, p \in Passwords, r \in RoleArgs}

AuthSteps(s) ==
  \/ \E req \in RegisterReqs : RegisterStart(s, req)
  \/ RegisterSelect(s)
  \/ RegisterInsert(s)
  \/ RegisterProfile(s)
  \/ RegisterEmail(s)
  \/ \E email \in Emails : ForgotStart(s, email)
  \/ ForgotSelect(s)
  \/ ForgotInsert(s)
  \/ ForgotEmail(s)
  \/ \E token \in TokenArgs, password \in PasswordArgs : ResetStart(s, token, password)
  \/ ResetSelect(s)
  \/ ResetUpdate(s)
  \/ ResetDelete(s)

NextAuth ==
  \/ SideDeliver
  \/ \E tok \in ResetTokens : Expire(tok)
  \/ \E s \in Slots : AuthSteps(s) \/ SideFail(s)

SpecAuth == InitSeq /\ [][NextAuth]_vars

\* the chapter router; ann has no membership row of chapter 1, or one in any status
InitChapter ==
  /\ jobs = InitJobs
  /\ applications = {}
  /\ nextAppId = 1
  /\ slots = [s \in Slots |-> Idle]
  /\ last = NoCall
  /\ resume = NoResume
  /\ interview_practice = <<>>
  /\ career = NoCareer
  /\ InitAuthTables
  /\ conc \in {1, 2}
  /\ \E st \in MemberStatuses \cup {"none"} :
       /\ chapter_members =
            InitMembers \cup
              (IF st = "none" THEN {}
               ELSE {[id |-> 2, chapter_id |-> 1, user_id |-> "ann", role |-> "member",
                      status |-> st]})
       /\ alumni_chapters =
            SetMemberCount(InitChapters, 1, IF st = "approved" THEN 2 ELSE 1)
       /\ nextMemberId = IF st = "none" THEN 2 ELSE 3
  /\ nextChapterId = 2
  /\ chapter_posts = <<>>
  /\ calls = [s \in Slots |-> NoSideCall]
  /\ answer = NoAnswer

CreateReqs ==
  {[chapter_name |-> n, college_name |-> c] : n \in ChapterNames, c \in ChapterNames}

ChapterSteps(s) ==
  \/ \E u \in ChapterUsers, req \in CreateReqs : CreateStart(s, u, req)
  \/ CreateInsert(s)
  \/ CreateMember(s)
  \/ CreateCount(s)
  \/ \E u \in ChapterUsers, c \in ChapterArgs : JoinStart(s, u, c)
  \/ JoinCheck(s)
  \/ JoinInsert(s)

NextChapter ==
  \/ SideDeliver
  \/ \E s \in Slots : ChapterSteps(s) \/ SideFail(s)

SpecChapter == InitChapter /\ [][NextChapter]_vars

\* the routers side by side, one call after the other: the operations that send
\* an email, chapter creation and stats, each of their store statements may throw
SiteSteps(s) ==
  \/ RegisterStart(s, [name |-> "Bob", email |-> "bob@x.io", password |-> "secret2",
                       role |-> "job_poster"])
  \/ RegisterSelect(s)
  \/ RegisterInsert(s)
  \/ RegisterProfile(s)
  \/ RegisterEmail(s)
  \/ ForgotStart(s, "ann@x.io")
  \/ ForgotSelect(s)
  \/ ForgotInsert(s)
  \/ ForgotEmail(s)
  \/ CreateStart(s, "bob", [chapter_name |-> "Alumni", college_name |-> "Alumni"])
  \/ CreateInsert(s)
  \/ CreateMember(s)
  \/ CreateCount(s)
  \/ SideFail(s)

NextSite ==
  \/ NextOf({"ann", "bob"}, {1}, {"accepted"}, {"t2"})
  \/ SideDeliver
  \/ CareerDeliver
  \/ \E thrown \in 0..2 : Stats("ann", thrown)
  \/ \E s \in Slots : SiteSteps(s)

SpecSite == InitSeq /\ [][NextSite]_vars

\* the row of an account in table users
Account(u) ==
  [user_id |-> UserIdOf(u), name |-> u, email |-> u \o "@x.io",
   password |-> Hash("secret1"), role |-> RoleOf(u), status |-> "active"]

Accounts == {Account(u) : u \in {"ann", "bob", "dan"}}

\* the accounts of ann, bob and dan; the job and the chapter of bob, ann applied
InitAdmin ==
  /\ jobs = IncrementCount(InitJobs, 1)
  /\ applications = InsertApplication({}, 1, 1, "ann")
  /\ nextAppId = 2
  /\ slots = [s \in Slots |-> Idle]
  /\ last = NoCall
  /\ conc = 1
  /\ resume = NoResume
  /\ interview_practice = <<>>
  /\ career = NoCareer
  /\ users = Accounts
  /\ profiles = {[user_id |-> r.user_id] : r \in Accounts}
  /\ password_resets = {}
  /\ nextUserId = 5
  /\ alumni_chapters = InitChapters
  /\ chapter_members = InitMembers
  /\ nextChapterId = 2
  /\ nextMemberId = 2
  /\ chapter_posts = <<>>
  /\ calls = [s \in Slots |-> NoSideCall]
  /\ answer = NoAnswer

\* the career router and the deletion of users, one call after the other
NextPractice ==
  \/ CareerDeliver
  \/ SideDeliver
  \/ \E u \in CareerUsers, prompt \in {Absent, <<"Why?">>}, response \in {<<"x">>, <<Star4>>},
        duration \in {Absent, <<30>>}, ok \in BOOLEAN :
       MockInterview(u, prompt, response, duration, ok)
  \/ \E u \in CareerUsers, thrown \in BOOLEAN : InterviewHistory(u, thrown)
  \/ \E u \in CareerUsers, thrown \in 0..2 : Stats(u, thrown)
  \/ \E s \in Slots :
       \/ \E u \in {"ann", "dan"}, id \in UserIdArgs : DeleteUserStart(s, u, id)
       \/ DeleteUserWrite(s)
       \/ SideFail(s)

SpecPractice == InitAdmin /\ [][NextPractice]_vars

\* two jobs of bob
TwoJobs ==
  InitJobs \cup {[job_id |-> 2, user_id |-> "bob", title |-> "t2", applications_count |-> 0]}

InitTwoJobs ==
  /\ jobs = TwoJobs
  /\ applications = {}
  /\ nextAppId = 1
  /\ slots = [s \in Slots |-> Idle]
  /\ last = NoCall
  /\ conc = 2
  /\ resume = NoResume
  /\ interview_practice = <<>>
  /\ career = NoCareer
  /\ InitSide

\* stats, apply and withdraw of one user, overlapping
NextStatsRace ==
  \/ Deliver
  \/ CareerDeliver
  \/ \E s \in Slots :
       \/ \E j \in IdArgs : ApplyStart(s, "ann", j)
       \/ ApplyCheck(s)
       \/ ApplyProfile(s)
       \/ ApplyInsert(s)
       \/ ApplyCount(s)
       \/ ApplyNotify(s)
       \/ \E a \in IdArgs : WithdrawStart(s, "ann", a)
       \/ WithdrawSelect(s)
       \/ WithdrawDelete(s)
       \/ WithdrawCount(s)
       \/ StatsStart(s, "ann")
       \/ StatsInterview(s)
       \/ StatsApps(s)

SpecStatsRace == InitTwoJobs /\ [][NextStatsRace]_vars

\* apply and withdraw, overlapping, no statement throws: ann and cat apply,
\* the applicants and the admin withdraw
NextCount ==
  \/ Deliver
  \/ \E s \in Slots :
       \/ \E u \in {"ann", "cat"} : ApplyStart(s, u, 1)
       \/ ApplyCheck(s)
       \/ ApplyProfile(s)
       \/ ApplyInsert(s)
       \/ ApplyCount(s)
       \/ ApplyNotify(s)
       \/ \E u \in {"ann", "cat", "dan"}, a \in IdArgs : WithdrawStart(s, u, a)
       \/ WithdrawSelect(s)
       \/ WithdrawDelete(s)
       \/ WithdrawCount(s)

SpecCount == Init /\ [][NextCount]_vars

\* chapter creation, join and member approve/reject, one call after the other
MemberSteps(s) ==
  \/ \E u \in ChapterUsers :
       CreateStart(s, u, [chapter_name |-> "Alumni", college_name |-> "Alumni"])
  \/ CreateInsert(s)
  \/ CreateMember(s)
  \/ CreateCount(s)
  \/ \E u \in ChapterUsers, c \in ChapterArgs : JoinStart(s, u, c)
  \/ JoinCheck(s)
  \/ JoinInsert(s)
  \/ \E u \in {"ann", "bob", "dan"}, c \in ChapterArgs, memberId \in MemberArgs,
        status \in MemberStatusArgs :
       MemberUpdateStart(s, u, c, memberId, status)
  \/ MemberUpdateCheck(s)
  \/ MemberUpdateWrite(s)
  \/ MemberUpdateCount(s)

NextMembers ==
  \/ SideDeliver
  \/ \E s \in Slots : MemberSteps(s)

SpecMembers == InitSeq /\ [][NextMembers]_vars

\* forgot-password and reset-password of ann, overlapping
ResetSteps(s) ==
  \/ ForgotStart(s, "ann@x.io")
  \/ ForgotSelect(s)
  \/ ForgotInsert(s)
  \/ ForgotEmail(s)
  \/ \E token \in {<<tok>> : tok \in ResetTokens}, password \in {<<"secret2">>, <<"secret3">>} :
       ResetStart(s, token, password)
  \/ ResetSelect(s)
  \/ ResetUpdate(s)
  \/ ResetDelete(s)

NextReset ==
  \/ SideDeliver
  \/ \E s \in Slots : ResetSteps(s)

SpecReset == Init /\ [][NextReset]_vars

\* the requests that need no admin, one call after the other
AccountSteps(s) ==
  \/ \E req \in {[name |-> "Bob", email |-> "bob@x.io", password |-> "secret2", role |-> r] :
                   r \in RoleArgs \cup {"student"}} : RegisterStart(s, req)
  \/ RegisterSelect(s)
  \/ RegisterInsert(s)
  \/ RegisterProfile(s)
  \/ RegisterEmail(s)
  \/ \E email \in Emails, password \in LoginPasswords : LoginStart(s, email, password)
  \/ LoginSelect(s)
  \/ ForgotStart(s, "ann@x.io")
  \/ ForgotSelect(s)
  \/ ForgotInsert(s)
  \/ ForgotEmail(s)
  \/ \E token \in TokenArgs : ResetStart(s, token, <<"secret2">>)
  \/ ResetSelect(s)
  \/ ResetUpdate(s)
  \/ ResetDelete(s)
  \/ \E id \in {1, 2}, name \in {"Ann B.", "admin"} : ProfileUpdateStart(s, id, name)
  \/ ProfileUpdateUsers(s)
  \/ ProfileUpdateProfiles(s)

NextAccounts ==
  \/ SideDeliver
  \/ \E s \in Slots : AccountSteps(s) \/ SideFail(s)

SpecAccounts == InitSeq /\ [][NextAccounts]_vars

\* login while an admin changes the status of accounts, one call after the other
LoginSteps(s) ==
  \/ \E email \in Emails, password \in LoginPasswords : LoginStart(s, email, password)
  \/ LoginSelect(s)
  \/ \E u \in {"ann", "dan"}, id \in UserIdArgs, status \in UserStatusArgs :
       UserStatusStart(s, u, id, status)
  \/ UserStatusWrite(s)

NextLogin ==
  \/ SideDeliver
  \/ \E s \in Slots : LoginSteps(s) \/ SideFail(s)

SpecLogin == InitSeq /\ [][NextLogin]_vars

\* the posts of chapter 1 while ann joins and bob, its admin, decides on her row
PostSteps(s) ==
  \/ JoinStart(s, "ann", 1)
  \/ JoinCheck(s)
  \/ JoinInsert(s)
  \/ \E status \in MemberStatusArgs : MemberUpdateStart(s, "bob", 1, 2, status)
  \/ MemberUpdateCheck(s)
  \/ MemberUpdateWrite(s)
  \/ MemberUpdateCount(s)
  \/ \E u \in Users, c \in ChapterArgs : PostsGetStart(s, u, c)
  \/ PostsGetCheck(s)
  \/ PostsGetSelect(s)
  \/ \E u \in Users, c \in ChapterArgs, req \in PostReqs : PostCreateStart(s, u, c, req)
  \/ PostCreateCheck(s)
  \/ PostCreateInsert(s)

NextPosts ==
  \/ SideDeliver
  \/ \E s \in Slots : PostSteps(s) \/ SideFail(s)

SpecPosts == InitSeq /\ [][NextPosts]_vars

(***************************************************************************)
(* Properties of the application lifecycle                                 *)
(*                                                                         *)
(* While calls run one after the other (SpecSeq, SpecStatus), a state with *)
(* a response going out shows the whole call: last.pre is the store the    *)
(* call found, the store variables are the store it left.                  *)
(***************************************************************************)

RowsOf(as, j, u) == {a \in as : a.job_id = j /\ a.user_id = u}

AppOf(as, id) == {a \in as : a.application_id = id}

JobsOf(js, id) == {r \in js : r.job_id = id}

CountsOf(js, id) == {r.applications_count : r \in JobsOf(js, id)}

Changed == jobs # last.pre.jobs \/ applications # last.pre.applications

\* C1: applying to an existing job the caller has not applied to answers 201,
\* raises that job's applications_count by exactly 1 and leaves exactly one row
\* for the pair; applying when the row is there (the second call) answers 400
\* and changes neither the rows nor the counter.
C1_ApplyTwice ==
  (last.kind = "apply" /\ ~last.faulted) =>
    LET pre == last.pre
        j == last.id
        u == last.user
        had == RowsOf(pre.applications, j, u) # {}
    IN /\ had => /\ last.code = 400
                 /\ ~Changed
       /\ (~had /\ JobsOf(pre.jobs, j) # {}) =>
            /\ last.code = 201
            /\ CountsOf(jobs, j) = {c + 1 : c \in CountsOf(pre.jobs, j)}
            /\ Cardinality(RowsOf(applications, j, u)) = 1
            /\ Cardinality(applications) = Cardinality(pre.applications) + 1

\* the second call: the pair's row and a counter of 1 are there, the answer is 400
C1_Witness ==
  /\ last.kind = "apply"
  /\ last.code = 400
  /\ Cardinality(RowsOf(applications, last.id, last.user)) = 1
  /\ Cardinality(applications) = 1
  /\ CountsOf(jobs, last.id) = {1}

\* C2: at most one application row per (job_id, user_id), in every state of
\* every interleaving of overlapping calls.
C2_UniquePair ==
  \A a, b \in applications :
    (a.job_id = b.job_id /\ a.user_id = b.user_id) => a = b

\* an apply call passed the duplicate check and its INSERT was refused although
\* the job is there: the overlapping call of the same user inserted first
C2_Witness ==
  /\ last.kind = "apply"
  /\ last.code = 500
  /\ ~last.faulted
  /\ JobsOf(jobs, last.id) # {}
  /\ Cardinality(RowsOf(applications, last.id, last.user)) = 1

\* C3: a withdrawal answered 200 has deleted the row and lowered the counter of
\* the row's job by 1 if it was positive and left it at 0 otherwise, other jobs
\* and rows untouched; no counter is ever negative.
C3_Withdraw ==
  /\ \A r \in jobs : r.applications_count >= 0
  /\ (last.kind = "withdraw" /\ last.code = 200) =>
       LET pre == last.pre
           app == AppOf(pre.applications, last.id)
       IN /\ app # {}
          /\ applications = pre.applications \ app
          /\ \A a \in app :
               jobs = {[r EXCEPT !.applications_count =
                          IF r.job_id # a.job_id THEN @
                          ELSE IF @ > 0 THEN @ - 1 ELSE 0] : r \in pre.jobs}

\* a withdrawal that found the counter at 0 (the increment had failed) and left it at 0
C3_Witness ==
  /\ last.kind = "withdraw"
  /\ last.code = 200
  /\ \E a \in AppOf(last.pre.applications, last.id) :
       /\ CountsOf(last.pre.jobs, a.job_id) = {0}
       /\ CountsOf(jobs, a.job_id) = {0}

\* the caller may set the status of the application: poster of its job or admin
MayReview(pre, id, u) ==
  \E a \in AppOf(pre.applications, id) : \E r \in JobsOf(pre.jobs, a.job_id) :
    r.user_id = u \/ RoleOf(u) = "admin"

\* C4: an authorised status update of an existing application to any of the
\* five statuses answers 200 and stores the requested status whatever the
\* status was; a value outside the five is answered 400 and changes nothing.
C4_AnyTransition ==
  (last.kind = "status" /\ ~last.faulted /\ RoleOf(last.user) \in {"job_poster", "alumni", "admin"}) =>
    LET pre == last.pre IN
    /\ (last.req \in AppStatuses /\ MayReview(pre, last.id, last.user)) =>
         /\ last.code = 200
         /\ jobs = pre.jobs
         /\ applications =
              {IF a.application_id = last.id THEN [a EXCEPT !.status = last.req] ELSE a :
                 a \in pre.applications}
    /\ last.req \notin AppStatuses => (last.code = 400 /\ ~Changed)

\* a backward transition: an accepted application set back to pending
C4_Witness ==
  /\ last.kind = "status"
  /\ last.code = 200
  /\ last.req = "pending"
  /\ \E a \in AppOf(last.pre.applications, last.id) : a.status = "accepted"
  /\ \E a \in AppOf(applications, last.id) : a.status = "pending"

GuardedKinds == {"withdraw", "status", "job_update", "job_delete"}

\* the owners of the row the call names, in the store the call found
OwnersOf(c) ==
  CASE c.kind = "withdraw" -> {a.user_id : a \in AppOf(c.pre.applications, c.id)}
    [] c.kind = "status" ->
         {r.user_id : r \in {q \in c.pre.jobs :
            \E a \in AppOf(c.pre.applications, c.id) : a.job_id = q.job_id}}
    [] c.kind \in {"job_update", "job_delete"} -> {r.user_id : r \in JobsOf(c.pre.jobs, c.id)}
    [] OTHER -> {}

\* the call names an existing row and the caller is neither its owner nor admin
Outsider(c) ==
  /\ OwnersOf(c) # {}
  /\ c.user \notin OwnersOf(c)
  /\ RoleOf(c.user) # "admin"

\* C5 as stated: every such caller gets 403 and nothing changes.
C5_Original ==
  (last.kind \in GuardedKinds /\ ~last.faulted /\ Outsider(last)) =>
    (last.code = 403 /\ ~Changed)

\* C5 as amended: the four operations change the store only for the owner or
\* an admin; any other caller of an existing row changes nothing and gets 403,
\* or 400 when a poster-role caller's status update carries an invalid status.
C5_OwnerOrAdmin ==
  last.kind \in GuardedKinds =>
    /\ Changed => (last.user \in OwnersOf(last) \/ RoleOf(last.user) = "admin")
    /\ (~last.faulted /\ Outsider(last)) =>
         /\ ~Changed
         /\ last.code =
              IF /\ last.kind = "status"
                 /\ last.req \notin AppStatuses
                 /\ RoleOf(last.user) \in {"job_poster", "alumni"}
                THEN 400 ELSE 403

\* another poster tried to withdraw a seeker's application and got 403
C5_Witness ==
  /\ last.kind = "withdraw"
  /\ last.code = 403
  /\ RoleOf(last.user) = "job_poster"
  /\ AppOf(applications, last.id) # {}

(***************************************************************************)
(* Properties of the resume scorer (SpecResume)                            *)
(***************************************************************************)

Answered == resume.out # <<>>

Accepted == Answered /\ resume.out[1].code = 200

Data == resume.out[1].data[1]

\* the length of the text without its leading and trailing whitespace
TrimmedLen(s) ==
  LET lead == Cardinality({i \in 1..Len(s) : \A k \in 1..i : IsSpace(At(s, k))})
      trail == Cardinality({i \in 1..Len(s) : \A k \in i..Len(s) : IsSpace(At(s, k))})
  IN IF lead = Len(s) THEN 0 ELSE Len(s) - lead - trail

\* w occurs in s, whatever the case
ContainsCI(s, w) == \E i \in 1..Len(s) : WordAt(s, i, w)

\* k: how many of the 15 table keywords occur in the text
KeywordCount(s) == Cardinality({i \in 1..Len(keywords) : ContainsCI(s, keywords[i])})

\* C6: a missing or empty text, or one whose trimmed length is below 20, is
\* answered 400 with no score, tips, foundKeywords or hasMetrics.
C6_ShortRejected ==
  (Answered /\ (~resume.given \/ TrimmedLen(resume.text) < 20)) =>
    /\ resume.out[1].code = 400
    /\ resume.out[1].data = <<>>

\* a text of 20 characters or more that is too short only once trimmed
C6_Witness ==
  /\ Answered
  /\ resume.given
  /\ Len(resume.text) >= 20
  /\ TrimmedLen(resume.text) < 20
  /\ resume.out[1].code = 400

\* C7: every accepted text gets an integer score in 0..100 and at least one tip.
C7_ScoreRange ==
  Accepted =>
    /\ Data.score \in 0..100
    /\ Len(Data.tips) >= 1

\* an accepted text whose points add up to more than 100
C7_Witness ==
  /\ Accepted
  /\ Data.score = 100
  /\ Data.hasMetrics
  /\ 8 * KeywordCount(resume.text) + 25 + 20 > 100

\* C8: score = min(100, 8k + 25m + 15l + 20), k counting every keyword found,
\* l = 1 iff the length is above 150; at length 150 no bonus and no 'expand' tip.
C8_ScoreFormula ==
  Accepted =>
    LET sum == 8 * KeywordCount(resume.text)
               + (IF Data.hasMetrics THEN 25 ELSE 0)
               + (IF Len(resume.text) > 150 THEN 15 ELSE 0)
               + 20
    IN /\ Data.score = IF sum > 100 THEN 100 ELSE sum
       /\ Len(resume.text) = 150 => \A i \in 1..Len(Data.tips) : Data.tips[i] # TipExpand

\* a text of exactly 150 characters with more than 5 keywords, scored below 100
C8_Witness ==
  /\ Accepted
  /\ Len(resume.text) = 150
  /\ KeywordCount(resume.text) > 5
  /\ Len(Data.foundKeywords) = 5
  /\ Data.score < 100

\* the tips the claim lists, in its order, for the text and the hasMetrics returned
ClaimedTips(s, m) ==
  LET missing == SelectSeq(keywords, LAMBDA kw : ~ContainsCI(s, kw))
      a == ~m
      b == KeywordCount(s) < 3
      c == Len(s) < 150
      d == ~ContainsCI(s, "project") /\ ~ContainsCI(s, "initiative")
  IN IF ~(a \/ b \/ c \/ d) THEN GenericTips
     ELSE (IF a THEN <<TipMetrics>> ELSE <<>>)
          \o (IF b THEN <<"Include action verbs like: " \o join(slice(missing, 5))>> ELSE <<>>)
          \o (IF c THEN <<TipExpand>> ELSE <<>>)
          \o (IF d THEN <<TipProjects>> ELSE <<>>)

\* C9: the tips are exactly the entries (a)-(d) whose condition holds, in this
\* order; the three generic tips are given iff none holds, never mixed.
C9_Tips == Accepted => Data.tips = ClaimedTips(resume.text, Data.hasMetrics)

\* none of (a)-(d) holds: the generic tips
C9_Witness ==
  /\ Accepted
  /\ Data.tips = GenericTips

\* a number (digits, with commas between or around them) and, after optional
\* whitespace, one of the metric words, from position i
NumberWordAt(s, i) ==
  /\ IsDigit(At(s, i)) \/ At(s, i) = ","
  /\ \E j \in i..Len(s) :
       /\ \A k \in i..j : IsDigit(At(s, k)) \/ At(s, k) = ","
       /\ \E k \in i..j : IsDigit(At(s, k))
       /\ \E m \in j..Len(s) :
            /\ \A k \in (j + 1)..m : IsSpace(At(s, k))
            /\ \E w \in MetricWords : WordAt(s, m + 1, w)

\* C10: hasMetrics iff the text holds a percentage, a dollar amount or a number
\* followed by a metric word; a comma before 'users' is no number.
C10_HasMetrics ==
  Accepted =>
    (Data.hasMetrics <=>
       \E i \in 1..Len(resume.text) :
         PercentAt(resume.text, i) \/ DollarAt(resume.text, i) \/ NumberWordAt(resume.text, i))

(***************************************************************************)
(* Properties of the interview scorer (SpecInterview) and of the           *)
(* confidence pulse (SpecStats)                                            *)
(***************************************************************************)

InterviewAnswered == career.kind = "mock-interview"

InterviewAccepted == InterviewAnswered /\ career.code = 200

InterviewReq == career.req[1]

InterviewOut == career.data[1]

\* how many of the four STAR components the response reports as present
StarCount(star) ==
  Cardinality({c \in {"situation", "task", "action", "result"} : star[c]})

Least(a, b) == IF a < b THEN a ELSE b

\* C11: totalScore = min(100, 25 * STAR components + min(30, floor(wordCount / 10) * 5) + 10),
\* so it lies in 0..100, and it is 100 when all four components are detected;
\* no row of interview_practice has a negative score.
C11_TotalScore ==
  /\ InterviewAccepted =>
       LET d == InterviewOut
           n == StarCount(d.starComponents)
       IN /\ d.score = Least(100, 25 * n + Least(30, (d.wordCount \div 10) * 5) + 10)
          /\ d.score \in 0..100
          /\ n = 4 => d.score = 100
  /\ \A i \in 1..Len(interview_practice) : interview_practice[i].score >= 0

\* an accepted response of 70 words or more without the four components
C11_Witness ==
  /\ InterviewAccepted
  /\ InterviewOut.wordCount >= 70
  /\ StarCount(InterviewOut.starComponents) < 4
  /\ InterviewOut.score = 40

Blank(f) == f = <<>> \/ f = <<"">>

\* C12: a submission whose prompt or response is missing or empty is answered
\* 400 and inserts no row.
C12_MissingRejected ==
  (InterviewAnswered /\ (Blank(InterviewReq.prompt) \/ Blank(InterviewReq.response))) =>
    /\ career.code = 400
    /\ interview_practice = career.pre

\* a prompt with an empty response, refused
C12_Witness ==
  /\ InterviewAnswered
  /\ InterviewReq.prompt = <<"Why?">>
  /\ InterviewReq.response = <<"">>
  /\ career.code = 400
  /\ interview_practice = career.pre

\* C13: success is answered only after exactly one row was inserted, carrying the
\* caller, the submitted prompt, response and duration (NULL when absent) and the
\* score returned; a failed insert is answered 500 without a success body or a row.
C13_StoredBeforeSuccess ==
  /\ InterviewAccepted =>
       interview_practice =
         Append(career.pre,
                [user_id |-> career.user, prompt |-> InterviewReq.prompt[1],
                 response |-> InterviewReq.response[1],
                 duration |-> InterviewReq.duration,
                 score |-> InterviewOut.score])
  /\ (InterviewAnswered /\ career.failed) =>
       /\ career.code = 500
       /\ career.data = <<>>
       /\ interview_practice = career.pre

\* the tokens of s: maximal runs of characters that are not whitespace
Tokens(s) ==
  Cardinality({i \in 1..Len(s) :
                 ~IsSpace(At(s, i)) /\ (i = 1 \/ IsSpace(At(s, i - 1)))})

\* C14: wordCount is the number of whitespace-delimited tokens of the response,
\* also for a response of whitespace only (no token).
C14_WordCount ==
  InterviewAccepted => InterviewOut.wordCount = Tokens(InterviewReq.response[1])

StatsAnswered == career.kind = "stats" /\ career.code = 200

\* the scores of the caller's practice rows
ScoresOf(u) ==
  LET idx == {i \in 1..Len(interview_practice) : interview_practice[i].user_id = u}
  IN [count |-> Cardinality(idx),
      sum |-> SumScores(SelectSeq(interview_practice, LAMBDA r : r.user_id = u))]

\* C15: confidencePulse = round(min(40, 8 * interviewCount) + min(30, 0.3 * avgScore)
\* + min(30, 3 * totalApplications)) lies in 0..100; it is 0 without interviews and
\* applications, 100 from 5 interviews averaging 100 and 10 applications on.
C15_ConfidencePulse ==
  StatsAnswered =>
    LET d == career.data[1]
        sc == ScoresOf(career.user)
        apps == Cardinality({a \in applications : a.user_id = career.user})
        \* the average as the store returns it, in ten-thousandths
        avg4 == IF sc.count = 0 THEN 0
                ELSE (20000 * sc.sum + sc.count) \div (2 * sc.count)
        \* the sum of the three weights, in hundred-thousandths
        total == Least(40, 8 * sc.count) * 100000 + Least(3000000, 3 * avg4)
                 + Least(30, 3 * apps) * 100000
    IN /\ d.confidencePulse = (total + 50000) \div 100000
       /\ d.confidencePulse \in 0..100
       /\ (sc.count = 0 /\ apps = 0) => d.confidencePulse = 0
       /\ (sc.count >= 5 /\ sc.sum = 100 * sc.count /\ apps >= 10) => d.confidencePulse = 100

\* five interviews averaging 100 and ten applications or more: the pulse is 100
C15_Witness ==
  /\ StatsAnswered
  /\ ScoresOf(career.user).count >= 5
  /\ ScoresOf(career.user).sum = 100 * ScoresOf(career.user).count
  /\ Cardinality({a \in applications : a.user_id = career.user}) > 10
  /\ career.data[1].confidencePulse = 100

(***************************************************************************)
(* Properties of the notifier and of store failures (SpecSite), of chapter *)
(* membership (SpecChapter), of apply (SpecSeq) and of password reset      *)
(* (SpecAuth)                                                              *)
(***************************************************************************)

MailFailures == {"unconfigured", "api_error", "throws"}

AnswerPre == answer.pre[1]

\* C16: a failure of the notifier leaves the outcome as it is: apply, status update,
\* registration and forgot-password answer success and their rows stay stored;
\* sendEmail never throws and reports the failure as false.
C16_NotifierSwallowed ==
  /\ \A o \in MailFailures : ~sendEmail(o).threw /\ ~sendEmail(o).value
  /\ (last.kind = "apply" /\ last.mail \in MailFailures) =>
       /\ last.code = 201
       /\ Cardinality(RowsOf(applications, last.id, last.user)) = 1
       /\ RowsOf(last.pre.applications, last.id, last.user) = {}
  /\ (last.kind = "status" /\ last.mail \in MailFailures) =>
       /\ last.code = 200
       /\ \A a \in AppOf(applications, last.id) : a.status = last.req
  /\ (answer.kind = "register" /\ answer.mail \in MailFailures) =>
       /\ answer.code = 201
       /\ \E u \in users \ AnswerPre.users :
            /\ u.email = answer.req[1].email
            /\ [user_id |-> u.user_id] \in profiles \ AnswerPre.profiles
  /\ (answer.kind = "forgot-password" /\ answer.mail \in MailFailures) =>
       /\ answer.code = 200
       /\ \E r \in password_resets \ AnswerPre.password_resets :
            r.email = answer.req[1].email

\* an apply whose email made resend.emails.send throw, answered 201
C16_Witness ==
  /\ last.kind = "apply"
  /\ last.mail = "throws"
  /\ last.code = 201
  /\ RowsOf(applications, last.id, last.user) # {}

\* a step in which a store statement of some call throws
StoreThrows ==
  \/ last = NoCall /\ last'.faulted
  \/ answer = NoAnswer /\ answer'.failed
  \/ career = NoCareer /\ career'.failed

\* C17: a store statement that throws is answered, in the same handler, with 500;
\* the statement is not run again and the statements after it are not run: the
\* tables stay as the failure found them and the call is over.
C17_FailureCaught ==
  [][StoreThrows =>
       /\ UNCHANGED <<dbvars, authvars, chaptervars, interview_practice>>
       /\ last'.faulted => last'.code = 500
       /\ answer'.failed => answer'.code = 500
       /\ career'.failed => career'.code = 500 /\ career'.data = <<>>
       /\ \A s \in Slots : slots'[s].pc # "idle" => slots'[s] = slots[s]
       /\ \A s \in Slots : calls'[s].pc # "idle" => calls'[s] = calls[s]
       /\ InFlight' <= InFlight]_vars

\* the counter update of an apply threw: the row is stored, the counter is not raised
C17_Witness ==
  /\ last.kind = "apply"
  /\ last.faulted
  /\ last.code = 500
  /\ RowsOf(applications, last.id, last.user) # {}
  /\ CountsOf(jobs, last.id) = {0}

\* C18: a join by a user who has a membership row of the chapter, whatever its
\* status, is answered 400 and adds no row; there is at most one row per
\* (chapter_id, user_id) in every state, also when two joins overlap.
C18_OneMembership ==
  /\ \A m1, m2 \in chapter_members :
       (m1.chapter_id = m2.chapter_id /\ m1.user_id = m2.user_id) => m1 = m2
  /\ (/\ answer.kind = "join"
      /\ ~answer.failed
      /\ answer.pre # <<>>
      /\ \E m \in AnswerPre.chapter_members :
           m.chapter_id = answer.req[1].id /\ m.user_id = answer.user) =>
       /\ answer.code = 400
       /\ chapter_members = AnswerPre.chapter_members

\* two overlapping joins: the second INSERT is refused by unique_membership
C18_Witness ==
  /\ conc = 2
  /\ answer.kind = "join"
  /\ answer.code = 500
  /\ ~answer.failed
  /\ \E m \in chapter_members :
       m.chapter_id = answer.req[1].id /\ m.user_id = answer.user /\ m.status = "pending"

\* C19: an apply that names a job id without a job is answered 404, creates no
\* application row and changes no applications_count.
C19_MissingJob404 ==
  (last.kind = "apply" /\ ~last.faulted /\ JobsOf(last.pre.jobs, last.id) = {}) =>
    /\ last.code = 404
    /\ ~Changed

\* the tokens stored, expired or not
TokensOf(rs) == {r.token : r \in rs}

\* C20: a reset-password request without a token, or with a new password shorter
\* than 6 characters, is answered 400 and changes neither a password nor a token.
C20_MalformedRejected ==
  (/\ answer.kind = "reset-password"
   /\ ~answer.failed
   /\ \/ answer.req[1].token = <<>>
      \/ answer.req[1].password # <<>> /\ Len(answer.req[1].password[1]) < 6) =>
    /\ answer.code = 400
    /\ users = AnswerPre.users
    /\ TokensOf(password_resets) = TokensOf(AnswerPre.password_resets)

(***************************************************************************)
(* Properties of practice rows under the career and admin routers          *)
(* (SpecPractice)                                                          *)
(***************************************************************************)

\* the rows of a table of practice rows that are not owned by account id
NotOwnedBy(rows, id) == SelectSeq(rows, LAMBDA r : UserIdOf(r.user_id) # id)

\* C21: a practice row, once stored, keeps its user, prompt, response, duration and
\* score; a step either leaves the table as it is, or adds one row behind the rows
\* that are there (mock-interview), or is the deletion of a user, which removes
\* that user's rows and no others; mock-interview, interview-history and stats
\* leave every row that is there as it is.
C21_PracticeImmutable ==
  [][LET n == Len(interview_practice) IN
     /\ \/ interview_practice' = interview_practice
        \/ /\ career'.kind = "mock-interview"
           /\ Len(interview_practice') = n + 1
           /\ SubSeq(interview_practice', 1, n) = interview_practice
        \/ \E id \in UserIdArgs :
             /\ answer'.kind = "delete-user"
             /\ answer'.req[1].id = id
             /\ \E u \in users : u.user_id = id
             /\ \A u \in users' : u.user_id # id
             /\ interview_practice' = NotOwnedBy(interview_practice, id)
     /\ (career' # career
         /\ career'.kind \in {"mock-interview", "interview-history", "stats"}) =>
          /\ Len(interview_practice') >= n
          /\ SubSeq(interview_practice', 1, n) = interview_practice]_vars

\* the deletion of a user who owned a row, while another user owns one too
C21_Witness ==
  /\ answer.kind = "delete-user"
  /\ answer.code = 200
  /\ \E i, j \in 1..Len(AnswerPre.interview_practice) :
       /\ UserIdOf(AnswerPre.interview_practice[i].user_id) = answer.req[1].id
       /\ UserIdOf(AnswerPre.interview_practice[j].user_id) # answer.req[1].id
  /\ Len(interview_practice) = 1
  /\ UserIdOf(interview_practice[1].user_id) # answer.req[1].id

(***************************************************************************)
(* Properties of the counter applications_count (SpecSeq, Spec)            *)
(***************************************************************************)

\* the application rows of job j
AppsOfJob(j) == Cardinality({a \in applications : a.job_id = j})

\* the counter updates of job j that calls in flight have yet to make
PendingInc(j) ==
  Cardinality({s \in Slots : slots[s].pc = "apply_count" /\ slots[s].id = j})

PendingDec(j) ==
  Cardinality({s \in Slots : slots[s].pc = "withdraw_count" /\ slots[s].row.job_id = j})

\* the counter of job j once the calls in flight have made their update
\* (calls run one after the other: at most one update is due)
SettledCount(j) ==
  LET c == CHOOSE n \in CountsOf(jobs, j) : TRUE
  IN Greatest(c + PendingInc(j) - PendingDec(j), 0)

\* by how much the counter of job j falls short of its rows
Drift(j) == AppsOfJob(j) - SettledCount(j)

JobKept(j) == JobsOf(jobs, j) # {} /\ JobsOf(jobs', j) # {}

\* the counter update of an apply throws
IncrementFails(s) ==
  /\ slots[s].pc = "apply_count"
  /\ slots'[s].pc = "idle"
  /\ last'.faulted

NoneInFlight == \A s \in Slots : slots[s].pc = "idle"

\* C24: while no apply and no withdraw is in flight, the applications_count of
\* every job is the number of its application rows, however the apply and
\* withdraw calls before overlapped.
C24_CountIsRows ==
  NoneInFlight => \A r \in jobs : r.applications_count = AppsOfJob(r.job_id)

(***************************************************************************)
(* Properties of stats among overlapping calls (SpecStatsRace)             *)
(***************************************************************************)

\* the caller's application rows when the first SELECT of the stats call ran
AppsAtFirstFetch ==
  Cardinality({a \in career.pre[1].applications : a.user_id = career.user})

\* C23: the totalApplications of a stats response differs by at most one from the
\* number of the caller's application rows at the moment the call read its
\* interview aggregate, whatever apply and withdraw calls ran in between.
C23_AtMostOneOff ==
  (career.kind = "stats" /\ career.code = 200) =>
    /\ career.data[1].totalApplications - AppsAtFirstFetch <= 1
    /\ AppsAtFirstFetch - career.data[1].totalApplications <= 1

(***************************************************************************)
(* Properties of member approval (SpecMembers)                             *)
(***************************************************************************)

ApprovedOf(ms, c) == {m \in ms : m.chapter_id = c /\ m.status = "approved"}

NoSideCalls == \A s \in Slots : calls[s].pc = "idle"

\* C25: between the calls, the member_count of every chapter is the number of its
\* chapter_members rows with status approved, after any sequence of chapter
\* creations, joins, approvals and rejections.
C25_MemberCount ==
  NoSideCalls =>
    \A r \in alumni_chapters :
      r.member_count = Cardinality(ApprovedOf(chapter_members, r.chapter_id))

\* the rows whose status a call changed
StatusChanged ==
  {m \in AnswerPre.chapter_members :
     \E n \in chapter_members : n.id = m.id /\ n.status # m.status}

\* the chapters whose member_count a call changed
CountChanged ==
  {r.chapter_id : r \in {q \in AnswerPre.alumni_chapters :
     \E n \in alumni_chapters :
       n.chapter_id = q.chapter_id /\ n.member_count # q.member_count}}

\* C26: approve/reject changes the status of a row only for a caller who is site
\* admin or an admin member of the chapter the row belongs to, and, naming a row
\* that exists, raises the member_count of no chapter but the one of that row.
C26_OwnChapterOnly ==
  (answer.kind = "member-update" /\ ~answer.failed) =>
    /\ \A m \in StatusChanged :
         \/ RoleOf(answer.user) = "admin"
         \/ SelectChapterAdmins(AnswerPre.chapter_members, m.chapter_id, answer.user) # {}
    /\ \A m \in AnswerPre.chapter_members :
         m.id = answer.req[1].memberId => CountChanged \subseteq {m.chapter_id}

(***************************************************************************)
(* Properties of reset tokens among overlapping calls (SpecReset)          *)
(***************************************************************************)

\* call s answers its reset-password request with success
ResetSucceeds(s) ==
  /\ calls[s].kind = "reset-password"
  /\ calls'[s].pc = "idle"
  /\ answer'.kind = "reset-password"
  /\ answer'.code = 200

\* C27: a token leads to one successful reset at most: a reset-password call
\* answers success only while its token is still stored, that is, no other call
\* with this token has answered success before it.
C27_TokenOnce ==
  [][\A s \in Slots : ResetSucceeds(s) =>
       calls[s].req[1].token[1] \in TokensOf(password_resets)]_vars

(***************************************************************************)
(* Properties of roles and of login (SpecAccounts, SpecLogin)              *)
(***************************************************************************)

\* C28: no step of register, login, forgot-password, reset-password or profile
\* update stores a user with role admin or changes the role of a stored user; a
\* registration with a role other than job_seeker, job_poster, alumni and student
\* is answered 400 and inserts no user.
C28_NoAdminByRequest ==
  [][/\ \A u \in users' :
          \/ \E v \in users : v.user_id = u.user_id /\ v.role = u.role
          \/ (\A v \in users : v.user_id # u.user_id) /\ u.role \in RegisterRoles
     /\ (answer'.kind = "register" /\ ~answer'.failed
         /\ answer'.req[1].role \notin RegisterRoles) =>
          /\ answer'.code = 400
          /\ users' = users]_vars

\* a registration asking for role admin, answered 400, and the users as before
C28_Witness ==
  /\ answer.kind = "register"
  /\ answer.req[1].role = "admin"
  /\ answer.code = 400
  /\ users = AnswerPre.users
  /\ \A u \in users : u.role # "admin"

\* the accounts a login request names, as stored when the request came in
LoginAccounts == {u \in AnswerPre.users : u.email = answer.req[1].email}

\* C29: a login that names a suspended account and submits a password is answered
\* 403 whether or not the password matches, and no login for a suspended account
\* returns a token; a token is returned only with 200, for a stored account that is
\* not suspended and whose password matches.
C29_SuspendedNoToken ==
  answer.kind = "login" =>
    /\ (\E u \in LoginAccounts : u.status = "suspended") =>
         /\ answer.data = <<>>
         /\ (~answer.failed /\ answer.req[1].password # "") => answer.code = 403
    /\ answer.data # <<>> =>
         /\ answer.code = 200
         /\ \E u \in LoginAccounts :
              /\ u.status # "suspended"
              /\ Hash(answer.req[1].password) = u.password
              /\ answer.data = <<Sign(u)>>

\* ann, suspended by the admin, logs in with her password and gets 403
C29_Witness ==
  /\ answer.kind = "login"
  /\ answer.req[1] = [email |-> "ann@x.io", password |-> "secret1"]
  /\ \E u \in LoginAccounts : u.status = "suspended"
  /\ answer.code = 403
  /\ answer.data = <<>>

(***************************************************************************)
(* Properties of chapter posts (SpecPosts)                                 *)
(***************************************************************************)

\* the caller had an approved membership row of the chapter, or the site role admin
MayUsePosts ==
  \/ \E m \in AnswerPre.chapter_members :
       /\ m.chapter_id = answer.req[1].id
       /\ m.user_id = answer.user
       /\ m.status = "approved"
  \/ RoleOf(answer.user) = "admin"

\* the request reached the membership check and no statement threw
PostsChecked ==
  /\ ~answer.failed
  /\ answer.kind = "create-post" =>
       ValidPost([type |-> answer.req[1].type, title |-> answer.req[1].title,
                  description |-> answer.req[1].description])

====
